---- MODULE Spec2Model ----
(***************************************************************************)
(* Issue extraction of the WhatsApp support-chat analyzer (extract.py):    *)
(* message classification, the segmentation loop of group_into_issues and  *)
(* its end-of-stream pass.                                                  *)
(*                                                                         *)
(* Text is modelled as the sequence of its Unicode code points, so that     *)
(* Python's `kw in s`, str.lower() and re.findall are computed, not        *)
(* assumed.  Time is in minutes: the transcript's timestamps have minute    *)
(* resolution (%I:%M), and a timedelta is a difference of two of them.      *)
(***************************************************************************)
EXTENDS Integers, Sequences, FiniteSets, TLC

\* ------------------------------------------------------------------ bounds
\* Longest message sequence the segmentation loop is run on.
MaxMsgs == 3

\* Gaps, in minutes, between one message and the next (the parser's output is
\* sorted, so a gap is never negative): same minute, 3 min, 37 min, exactly
\* the 2 hour limit, and 3 hours.
Gaps == {0, 3, 37, 120, 180}

\* ------------------------------------------------------- strings as code points
\* The message bodies the model draws from, with their code points.
CustomerContents == {"port down, ticket 1234567", "7654321 7654321", "any update", "hello"}

SupportContents == {"ok checking", "done, fixed", "checking 1234567", "on it", "please wait"}

Contents == CustomerContents \cup SupportContents

CodePoints(content) ==
    CASE content = "port down, ticket 1234567" -> <<112, 111, 114, 116, 32, 100, 111, 119, 110, 44, 32, 116, 105, 99, 107, 101, 116, 32, 49, 50, 51, 52, 53, 54, 55>>
      [] content = "7654321 7654321" -> <<55, 54, 53, 52, 51, 50, 49, 32, 55, 54, 53, 52, 51, 50, 49>>
      [] content = "any update" -> <<97, 110, 121, 32, 117, 112, 100, 97, 116, 101>>
      [] content = "hello" -> <<104, 101, 108, 108, 111>>
      [] content = "ok checking" -> <<111, 107, 32, 99, 104, 101, 99, 107, 105, 110, 103>>
      [] content = "done, fixed" -> <<100, 111, 110, 101, 44, 32, 102, 105, 120, 101, 100>>
      [] content = "checking 1234567" -> <<99, 104, 101, 99, 107, 105, 110, 103, 32, 49, 50, 51, 52, 53, 54, 55>>
      [] content = "on it" -> <<111, 110, 32, 105, 116>>
      [] content = "please wait" -> <<112, 108, 101, 97, 115, 101, 32, 119, 97, 105, 116>>
      [] content = "got it, please wait" -> <<103, 111, 116, 32, 105, 116, 44, 32, 112, 108, 101, 97, 115, 101, 32, 119, 97, 105, 116>>
      [] content = "done, please recheck" -> <<100, 111, 110, 101, 44, 32, 112, 108, 101, 97, 115, 101, 32, 114, 101, 99, 104, 101, 99, 107>>
      [] content = "OK" -> <<79, 75>>
      [] content = "CHECKING" -> <<67, 72, 69, 67, 75, 73, 78, 71>>
      [] content = "<Media omitted>" -> <<60, 77, 101, 100, 105, 97, 32, 111, 109, 105, 116, 116, 101, 100, 62>>
      [] content = "1/5/24" -> <<49, 47, 53, 47, 50, 52>>
      [] content = "13/1/24" -> <<49, 51, 47, 49, 47, 50, 52>>
      [] content = "1/5/2024" -> <<49, 47, 53, 47, 50, 48, 50, 52>>
      [] content = "12:05" -> <<49, 50, 58, 48, 53>>
      [] content = "1:05" -> <<49, 58, 48, 53>>
      [] content = "0:05" -> <<48, 58, 48, 53>>
      [] content = "c1" -> <<99, 49>>
      [] content = "s1" -> <<115, 49>>
      [] content = "s2" -> <<115, 50>>
      [] content = "u1" -> <<117, 49>>
      [] content = "+964 783 443 6137" -> <<43, 57, 54, 52, 32, 55, 56, 51, 32, 52, 52, 51, 32, 54, 49, 51, 55>>
      [] content = "+964 790 277 3316" -> <<43, 57, 54, 52, 32, 55, 57, 48, 32, 50, 55, 55, 32, 51, 51, 49, 54>>
      [] content = "+964 781 203 9859" -> <<43, 57, 54, 52, 32, 55, 56, 49, 32, 50, 48, 51, 32, 57, 56, 53, 57>>
      [] content = "+964 771 167 8385" -> <<43, 57, 54, 52, 32, 55, 55, 49, 32, 49, 54, 55, 32, 56, 51, 56, 53>>
      [] content = "Omar Noc" -> <<79, 109, 97, 114, 32, 78, 111, 99>>
      [] content = "+964 770 693 8940" -> <<43, 57, 54, 52, 32, 55, 55, 48, 32, 54, 57, 51, 32, 56, 57, 52, 48>>
      [] content = "+964 782 128 1984" -> <<43, 57, 54, 52, 32, 55, 56, 50, 32, 49, 50, 56, 32, 49, 57, 56, 52>>
      [] content = "Ahmed Isam" -> <<65, 104, 109, 101, 100, 32, 73, 115, 97, 109>>
      [] content = "Ali It Earthlink (in Arabic letters)" -> <<1593, 1604, 1610, 32, 73, 116, 32, 1575, 1610, 1585, 1579, 1604, 1606, 1603>>
      [] content = "+964 770 495 3348" -> <<43, 57, 54, 52, 32, 55, 55, 48, 32, 52, 57, 53, 32, 51, 51, 52, 56>>
      [] content = "Ali Oudah Noc" -> <<65, 108, 105, 32, 79, 117, 100, 97, 104, 32, 78, 111, 99>>
      [] content = "Haidar Halawa (in Arabic letters)" -> <<1581, 1610, 1583, 1585, 32, 1581, 1604, 1575, 1608, 1577>>
      [] content = "+964 780 852 5298" -> <<43, 57, 54, 52, 32, 55, 56, 48, 32, 56, 53, 50, 32, 53, 50, 57, 56>>
      [] content = "Farouk" -> <<70, 97, 114, 111, 117, 107>>
      [] content = "+964 780 255 8403" -> <<43, 57, 54, 52, 32, 55, 56, 48, 32, 50, 53, 53, 32, 56, 52, 48, 51>>
      [] content = "link down, thanks" -> <<108, 105, 110, 107, 32, 100, 111, 119, 110, 44, 32, 116, 104, 97, 110, 107, 115>>
      [] content = "nothing undone" -> <<110, 111, 116, 104, 105, 110, 103, 32, 117, 110, 100, 111, 110, 101>>

\* issue_indicators of _classify_message_type, in source order, as code points
issue_indicators ==
    << <<1591, 1601, 1578>>,   \* U+0637 U+0641 U+062A
       <<1591, 1575, 1601, 1610>>,   \* U+0637 U+0627 U+0641 U+064A
       <<1602, 1591, 1593>>,   \* U+0642 U+0637 U+0639
       <<1605, 1588, 1603, 1604, 1577>>,   \* U+0645 U+0634 U+0643 U+0644 U+0629
       <<1576, 1608, 1585, 1578>>,   \* U+0628 U+0648 U+0631 U+062A
       <<100, 111, 119, 110>>,   \* down
       <<101, 114, 114, 111, 114>>,   \* error
       <<1605, 1575, 1580, 1575, 1576, 1607>>,   \* U+0645 U+0627 U+062C U+0627 U+0628 U+0647
       <<1605, 1580, 1575, 1576, 1607>>,   \* U+0645 U+062C U+0627 U+0628 U+0647
       <<1605, 1575, 1580, 1575, 1576, 1607, 1575>>,   \* U+0645 U+0627 U+062C U+0627 U+0628 U+0647 U+0627
       <<1605, 1580, 1575, 1576, 1607, 1575>>,   \* U+0645 U+062C U+0627 U+0628 U+0647 U+0627
       <<1591, 1575, 1601, 1610, 1607>>,   \* U+0637 U+0627 U+0641 U+064A U+0647
       <<1576, 1608, 1585, 1578, 1575, 1578, 32, 1591, 1601, 1578>>,   \* U+0628 U+0648 U+0631 U+062A U+0627 U+062A SP U+0637 U+0641 U+062A
       <<1576, 1608, 1585, 1578, 1575, 1578, 32, 1591, 1575, 1601, 1610>>,   \* U+0628 U+0648 U+0631 U+062A U+0627 U+062A SP U+0637 U+0627 U+0641 U+064A
       <<1602, 1591, 1608, 1593, 1575, 1578>>,   \* U+0642 U+0637 U+0648 U+0639 U+0627 U+062A
       <<1604, 1591, 1588>> >>   \* U+0644 U+0637 U+0634

\* resolution_indicators of _classify_message_type
resolution_indicators ==
    << <<1578, 1605, 1575, 1605>>,   \* U+062A U+0645 U+0627 U+0645
       <<100, 111, 110, 101>>,   \* done
       <<114, 101, 99, 104, 101, 99, 107>>,   \* recheck
       <<111, 107>>,   \* ok
       <<115, 111, 108, 118, 101, 100>>,   \* solved
       <<102, 105, 120, 101, 100>>,   \* fixed
       <<1593, 1575, 1588, 1578, 32, 1575, 1610, 1583, 1603>>,   \* U+0639 U+0627 U+0634 U+062A SP U+0627 U+064A U+062F U+0643
       <<1608, 1575, 1610, 1583, 1603>>,   \* U+0648 U+0627 U+064A U+062F U+0643
       <<1578, 1583, 1604, 1604>>,   \* U+062A U+062F U+0644 U+0644
       <<1605, 1605, 1606, 1608, 1606>>,   \* U+0645 U+0645 U+0646 U+0648 U+0646
       <<1588, 1603, 1585, 1575>>,   \* U+0634 U+0643 U+0631 U+0627
       <<116, 104, 97, 110, 107, 32, 121, 111, 117>>,   \* thank you
       <<119, 101, 108, 99, 111, 109, 101>>,   \* welcome
       <<1603, 1605, 1604, 1606>>,   \* U+0643 U+0645 U+0644 U+0646
       <<1575, 1606, 1578, 1607, 1609>> >>   \* U+0627 U+0646 U+062A U+0647 U+0649

\* patterns['follow_up']: the arabic list, then the english list (the order _contains_keywords scans)
patterns_follow_up ==
    << <<1588, 1604, 1608, 1606, 1603>>,   \* U+0634 U+0644 U+0648 U+0646 U+0643
       <<1608, 1610, 1606, 32, 1608, 1589, 1604>>,   \* U+0648 U+064A U+0646 SP U+0648 U+0635 U+0644
       <<1588, 1606, 1608, 32, 1589, 1575, 1585>>,   \* U+0634 U+0646 U+0648 SP U+0635 U+0627 U+0631
       <<1603, 1605, 1604, 1606>>,   \* U+0643 U+0645 U+0644 U+0646
       <<1604, 1587, 1575>>,   \* U+0644 U+0633 U+0627
       <<1576, 1593, 1583>>,   \* U+0628 U+0639 U+062F
       <<1588, 1608, 1601, 1578>>,   \* U+0634 U+0648 U+0641 U+062A
       <<1575, 1606, 1578, 32, 1584, 1607, 1576>>,   \* U+0627 U+0646 U+062A SP U+0630 U+0647 U+0628
       <<1607, 1587, 1607>>,   \* U+0647 U+0633 U+0647
       <<97, 110, 121, 32, 117, 112, 100, 97, 116, 101>>,   \* any update
       <<115, 116, 97, 116, 117, 115>>,   \* status
       <<119, 104, 97, 116, 32, 97, 98, 111, 117, 116>>,   \* what about
       <<115, 116, 105, 108, 108>>,   \* still
       <<121, 101, 116>> >>   \* yet

\* patterns['acknowledgment']: the arabic list, then the english list (the order _contains_keywords scans)
patterns_acknowledgment ==
    << <<1578, 1605, 1575, 1605>>,   \* U+062A U+0645 U+0627 U+0645
       <<1576, 1575, 1588, 1585>>,   \* U+0628 U+0627 U+0634 U+0631
       <<1575, 1608, 1603, 1610>>,   \* U+0627 U+0648 U+0643 U+064A
       <<1581, 1575, 1590, 1585>>,   \* U+062D U+0627 U+0636 U+0631
       <<1601, 1607, 1605, 1578>>,   \* U+0641 U+0647 U+0645 U+062A
       <<1608, 1589, 1604>>,   \* U+0648 U+0635 U+0644
       <<1607, 1587, 1607, 32, 1575, 1580, 1610, 1603>>,   \* U+0647 U+0633 U+0647 SP U+0627 U+062C U+064A U+0643
       <<1607, 1587, 1607, 32, 1606, 1580, 1610, 1603>>,   \* U+0647 U+0633 U+0647 SP U+0646 U+062C U+064A U+0643
       <<1588, 1608, 1601, 1607>>,   \* U+0634 U+0648 U+0641 U+0647
       <<1585, 1575, 1581, 32, 1575, 1588, 1608, 1601>>,   \* U+0631 U+0627 U+062D SP U+0627 U+0634 U+0648 U+0641
       <<1583, 1604, 1604>>,   \* U+062F U+0644 U+0644
       <<1607, 1587, 1607, 32, 1575, 1588, 1608, 1601, 1607, 1575>>,   \* U+0647 U+0633 U+0647 SP U+0627 U+0634 U+0648 U+0641 U+0647 U+0627
       <<1607, 1587, 1607, 32, 1575, 1580, 1610, 1603, 1607>>,   \* U+0647 U+0633 U+0647 SP U+0627 U+062C U+064A U+0643 U+0647
       <<111, 107>>,   \* ok
       <<111, 107, 97, 121>>,   \* okay
       <<103, 111, 116, 32, 105, 116>>,   \* got it
       <<110, 111, 116, 101, 100>>,   \* noted
       <<99, 104, 101, 99, 107, 105, 110, 103>>,   \* checking
       <<119, 105, 108, 108, 32, 99, 104, 101, 99, 107>>,   \* will check
       <<108, 111, 111, 107, 105, 110, 103, 32, 105, 110, 116, 111>> >>   \* looking into

\* patterns['request_action']: the arabic list, then the english list (the order _contains_keywords scans)
patterns_request_action ==
    << <<1605, 1605, 1603, 1606>>,   \* U+0645 U+0645 U+0643 U+0646
       <<1576, 1604, 1575, 1586, 1581, 1605, 1607>>,   \* U+0628 U+0644 U+0627 U+0632 U+062D U+0645 U+0647
       <<1575, 1584, 1575, 32, 1605, 1605, 1603, 1606>>,   \* U+0627 U+0630 U+0627 SP U+0645 U+0645 U+0643 U+0646
       <<1578, 1602, 1583, 1585>>,   \* U+062A U+0642 U+062F U+0631
       <<1604, 1608, 32, 1587, 1605, 1581, 1578>>,   \* U+0644 U+0648 SP U+0633 U+0645 U+062D U+062A
       <<1578, 1580, 1610, 1603>>,   \* U+062A U+062C U+064A U+0643
       <<1578, 1588, 1608, 1601>>,   \* U+062A U+0634 U+0648 U+0641
       <<1578, 1593, 1583, 1604>>,   \* U+062A U+0639 U+062F U+0644
       <<1578, 1605, 1587, 1581, 1607, 1575>>,   \* U+062A U+0645 U+0633 U+062D U+0647 U+0627
       <<1578, 1604, 1594, 1608, 1607, 1575>>,   \* U+062A U+0644 U+063A U+0648 U+0647 U+0627
       <<99, 97, 110, 32, 121, 111, 117>>,   \* can you
       <<99, 111, 117, 108, 100, 32, 121, 111, 117>>,   \* could you
       <<112, 108, 101, 97, 115, 101>>,   \* please
       <<119, 111, 117, 108, 100, 32, 121, 111, 117>>,   \* would you
       <<107, 105, 110, 100, 108, 121>> >>   \* kindly

\* categories['zabbix_monitoring'] of _categorize_issue
categories_zabbix_monitoring ==
    << <<122, 97, 98, 98, 105, 120>>,   \* zabbix
       <<1586, 1575, 1576, 1603, 1587>>,   \* U+0632 U+0627 U+0628 U+0643 U+0633
       <<1605, 1575, 1580, 1575, 1576, 1607, 32, 1575, 1604, 1586, 1575, 1576, 1603, 1587>>,   \* U+0645 U+0627 U+062C U+0627 U+0628 U+0647 SP U+0627 U+0644 U+0632 U+0627 U+0628 U+0643 U+0633
       <<1605, 1580, 1575, 1576, 1607, 1575, 32, 1575, 1604, 1586, 1575, 1576, 1603, 1587>> >>   \* U+0645 U+062C U+0627 U+0628 U+0647 U+0627 SP U+0627 U+0644 U+0632 U+0627 U+0628 U+0643 U+0633

\* categories['port_down'] of _categorize_issue
categories_port_down ==
    << <<112, 111, 114, 116>>,   \* port
       <<1576, 1608, 1585, 1578>>,   \* U+0628 U+0648 U+0631 U+062A
       <<1576, 1608, 1585, 1578, 1575, 1578>>,   \* U+0628 U+0648 U+0631 U+062A U+0627 U+062A
       <<112, 111, 114, 116, 115, 32, 100, 111, 119, 110>>,   \* ports down
       <<108, 105, 110, 107, 32, 100, 111, 119, 110>> >>   \* link down

\* categories['temperature'] of _categorize_issue
categories_temperature ==
    << <<116, 101, 109, 112, 101, 114, 97, 116, 117, 114, 101>>,   \* temperature
       <<1581, 1585, 1575, 1585, 1577>>,   \* U+062D U+0631 U+0627 U+0631 U+0629
       <<1578, 1605, 1576, 1585, 1580, 1585>>,   \* U+062A U+0645 U+0628 U+0631 U+062C U+0631
       <<116, 114, 105, 103, 103, 101, 114>> >>   \* trigger

\* categories['outage'] of _categorize_issue
categories_outage ==
    << <<1602, 1591, 1593>>,   \* U+0642 U+0637 U+0639
       <<1602, 1591, 1608, 1593, 1575, 1578>>,   \* U+0642 U+0637 U+0648 U+0639 U+0627 U+062A
       <<100, 111, 119, 110>>,   \* down
       <<111, 102, 102, 108, 105, 110, 101>>,   \* offline
       <<1591, 1601, 1578>>,   \* U+0637 U+0641 U+062A
       <<1605, 1606, 1602, 1591, 1593>> >>   \* U+0645 U+0646 U+0642 U+0637 U+0639

\* categories['configuration'] of _categorize_issue
categories_configuration ==
    << <<101, 100, 105, 116>>,   \* edit
       <<99, 104, 97, 110, 103, 101>>,   \* change
       <<1578, 1593, 1583, 1610, 1604>>,   \* U+062A U+0639 U+062F U+064A U+0644
       <<1593, 1583, 1604>>,   \* U+0639 U+062F U+0644
       <<111, 105, 100>>,   \* oid
       <<99, 108, 97, 115, 115>> >>   \* class

\* categories['alarm'] of _categorize_issue
categories_alarm ==
    << <<97, 108, 97, 114, 109>>,   \* alarm
       <<1575, 1604, 1585, 1605>>,   \* U+0627 U+0644 U+0631 U+0645
       <<1605, 1588, 1603, 1604, 1577>>,   \* U+0645 U+0634 U+0643 U+0644 U+0629
       <<101, 114, 114, 111, 114>> >>   \* error

\* Python `kw in s` on strings: kw occurs in s as a contiguous substring.
Contains(s, kw) ==
    \E i \in 1..(Len(s) - Len(kw) + 1) : SubSeq(s, i, i + Len(kw) - 1) = kw

\* any(kw in s for kw in kws)
AnyIn(kws, s) == \E k \in 1..Len(kws) : Contains(s, kws[k])

\* str.lower(): A-Z map to a-z; Arabic letters have no case.
Lower(s) == [i \in 1..Len(s) |-> IF s[i] \in 65..90 THEN s[i] + 32 ELSE s[i]]

\* \d of a Python 3 str pattern: ASCII, Arabic-Indic and Extended
\* Arabic-Indic decimal digits (the digits of the modelled alphabet).
IsDigit(c) == c \in 48..57 \/ c \in 1632..1641 \/ c \in 1776..1785

\* \w: letters, digits and the underscore (Latin and Arabic letters here).
IsWord(c) ==
    \/ IsDigit(c) \/ c \in 65..90 \/ c \in 97..122 \/ c = 95
    \/ c \in 1568..1610 \/ c \in 1646..1747

\* A match of ticket_pattern  \b\d{7}\b  starts at position i of s.
TicketAt(s, i) ==
    /\ i + 6 <= Len(s)
    /\ \A j \in i..(i + 6) : IsDigit(s[j])
    /\ (i = 1 \/ ~IsWord(s[i - 1]))
    /\ (i + 7 > Len(s) \/ ~IsWord(s[i + 7]))

\* re.findall(ticket_pattern, s) scanning from position i: the matches left
\* to right, not overlapping, duplicates kept.
RECURSIVE FindTickets(_, _)
FindTickets(s, i) ==
    IF i > Len(s) THEN <<>>
    ELSE IF TicketAt(s, i) THEN <<SubSeq(s, i, i + 6)>> \o FindTickets(s, i + 7)
    ELSE FindTickets(s, i + 1)

\* _detect_language: Arabic-range characters against Latin letters.
_detect_language(text) ==
    LET arabic_chars  == Cardinality({i \in 1..Len(text) : text[i] \in 1536..1791})
        english_chars == Cardinality({i \in 1..Len(text) :
                                          text[i] \in 65..90 \/ text[i] \in 97..122})
    IN  IF arabic_chars > english_chars * 2 THEN "arabic"
        ELSE IF english_chars > arabic_chars * 2 THEN "english"
        ELSE "mixed"

\* _contains_keywords(content, keyword_dict)
_contains_keywords(content, keyword_list) == AnyIn(keyword_list, content)

\* Mutant: the acknowledgment keywords are tested before the resolution
\* indicators.
_classify_message_type_AckFirst(sender_type, content, has_ticket) ==
    LET content_lower == Lower(content) IN
    IF sender_type = "customer" THEN
        IF AnyIn(issue_indicators, content_lower) THEN "issue_report"
        ELSE IF has_ticket THEN "issue_report"
        ELSE IF _contains_keywords(content, patterns_follow_up) THEN "follow_up"
        ELSE "general"
    ELSE IF sender_type = "support" THEN
        IF _contains_keywords(content, patterns_acknowledgment) THEN "acknowledgment"
        ELSE IF AnyIn(resolution_indicators, content_lower) THEN "resolution"
        ELSE IF _contains_keywords(content, patterns_request_action) THEN "request_info"
        ELSE "response"
    ELSE "other"

\* _classify_message_type(sender_type, content, has_ticket): role-gated,
\* first match wins.
_classify_message_type(sender_type, content, has_ticket) ==
    LET content_lower == Lower(content) IN
    IF sender_type = "customer" THEN
        IF AnyIn(issue_indicators, content_lower) THEN "issue_report"
        ELSE IF has_ticket THEN "issue_report"
        ELSE IF _contains_keywords(content, patterns_follow_up) THEN "follow_up"
        ELSE "general"
    ELSE IF sender_type = "support" THEN
        IF AnyIn(resolution_indicators, content_lower) THEN "resolution"
        ELSE IF _contains_keywords(content, patterns_acknowledgment) THEN "acknowledgment"
        ELSE IF _contains_keywords(content, patterns_request_action) THEN "request_info"
        ELSE "response"
    ELSE "other"

\* _categorize_issue(content): the categories dict in insertion order, first
\* category with a keyword in the lowered content.
_categorize_issue(content) ==
    LET content_lower == Lower(content) IN
    IF AnyIn(categories_zabbix_monitoring, content_lower) THEN "zabbix_monitoring"
    ELSE IF AnyIn(categories_port_down, content_lower) THEN "port_down"
    ELSE IF AnyIn(categories_temperature, content_lower) THEN "temperature"
    ELSE IF AnyIn(categories_outage, content_lower) THEN "outage"
    ELSE IF AnyIn(categories_configuration, content_lower) THEN "configuration"
    ELSE IF AnyIn(categories_alarm, content_lower) THEN "alarm"
    ELSE "other"

\* ------------------------------------------------------------ member roster
\* self.customers and self.support_staff once classify_members has run.
customers == {"c1"}

support_staff == {"s1", "s2"}

\* patterns['issue_keywords']: the arabic list, then the english list (the order _analyze_sender_behavior scans)
patterns_issue_keywords ==
    << <<1605, 1588, 1603, 1604, 1577>>,   \* U+0645 U+0634 U+0643 U+0644 U+0629
       <<1593, 1591, 1604>>,   \* U+0639 U+0637 U+0644
       <<1582, 1591, 1571>>,   \* U+062E U+0637 U+0623
       <<1591, 1601, 1578>>,   \* U+0637 U+0641 U+062A
       <<1591, 1575, 1601, 1610>>,   \* U+0637 U+0627 U+0641 U+064A
       <<1591, 1601, 1607>>,   \* U+0637 U+0641 U+0647
       <<1605, 1606, 1602, 1591, 1593>>,   \* U+0645 U+0646 U+0642 U+0637 U+0639
       <<1605, 1575, 1580, 1575, 1576, 1607>>,   \* U+0645 U+0627 U+062C U+0627 U+0628 U+0647
       <<1605, 1575, 1580, 1575, 1576, 1607, 1575>>,   \* U+0645 U+0627 U+062C U+0627 U+0628 U+0647 U+0627
       <<1605, 1580, 1575, 1576, 1607>>,   \* U+0645 U+062C U+0627 U+0628 U+0647
       <<1605, 1580, 1575, 1576, 1607, 1575>>,   \* U+0645 U+062C U+0627 U+0628 U+0647 U+0627
       <<1605, 1608, 32, 1588, 1594, 1575, 1604>>,   \* U+0645 U+0648 SP U+0634 U+063A U+0627 U+0644
       <<1605, 1575, 32, 1610, 1588, 1578, 1594, 1604>>,   \* U+0645 U+0627 SP U+064A U+0634 U+062A U+063A U+0644
       <<1576, 1608, 1610, 1577>>,   \* U+0628 U+0648 U+064A U+0629
       <<1576, 1608, 1610, 1607>>,   \* U+0628 U+0648 U+064A U+0647
       <<1576, 1608, 1610, 1606, 1578>>,   \* U+0628 U+0648 U+064A U+0646 U+062A
       <<1576, 1608, 1610, 1606, 1578, 1575, 1578>>,   \* U+0628 U+0648 U+064A U+0646 U+062A U+0627 U+062A
       <<1576, 1608, 1585, 1578>>,   \* U+0628 U+0648 U+0631 U+062A
       <<1576, 1608, 1585, 1578, 1575, 1578>>,   \* U+0628 U+0648 U+0631 U+062A U+0627 U+062A
       <<1602, 1591, 1593>>,   \* U+0642 U+0637 U+0639
       <<1602, 1591, 1608, 1593, 1575, 1578>>,   \* U+0642 U+0637 U+0648 U+0639 U+0627 U+062A
       <<100, 111, 119, 110>>,   \* down
       <<111, 102, 102, 108, 105, 110, 101>>,   \* offline
       <<1604, 1591, 1588>>,   \* U+0644 U+0637 U+0634
       <<1605, 1593, 1604, 1602>>,   \* U+0645 U+0639 U+0644 U+0642
       <<1591, 1575, 1601, 1610, 1607>>,   \* U+0637 U+0627 U+0641 U+064A U+0647
       <<1591, 1575, 1601, 1610>>,   \* U+0637 U+0627 U+0641 U+064A
       <<1591, 1601, 1578>>,   \* U+0637 U+0641 U+062A
       <<1602, 1591, 1608, 1593, 1575, 1578>>,   \* U+0642 U+0637 U+0648 U+0639 U+0627 U+062A
       <<1576, 1608, 1585, 1578, 1575, 1578, 32, 1591, 1601, 1578>>,   \* U+0628 U+0648 U+0631 U+062A U+0627 U+062A SP U+0637 U+0641 U+062A
       <<1576, 1608, 1585, 1578, 1575, 1578, 32, 1591, 1575, 1601, 1610>>,   \* U+0628 U+0648 U+0631 U+062A U+0627 U+062A SP U+0637 U+0627 U+0641 U+064A
       <<1605, 1580, 1575, 1576, 1607, 32, 1575, 1604, 1586, 1575, 1576, 1603, 1587>>,   \* U+0645 U+062C U+0627 U+0628 U+0647 SP U+0627 U+0644 U+0632 U+0627 U+0628 U+0643 U+0633
       <<1605, 1575, 1580, 1575, 1576, 1607, 1575, 32, 1575, 1604, 1586, 1575, 1576, 1603, 1587>>,   \* U+0645 U+0627 U+062C U+0627 U+0628 U+0647 U+0627 SP U+0627 U+0644 U+0632 U+0627 U+0628 U+0643 U+0633
       <<1605, 1575, 1580, 1575, 1576, 1607, 32, 1575, 1604, 1586, 1575, 1576, 1603, 1587>>,   \* U+0645 U+0627 U+062C U+0627 U+0628 U+0647 SP U+0627 U+0644 U+0632 U+0627 U+0628 U+0643 U+0633
       <<1602, 1591, 1593, 32, 1605, 1575, 32, 1576, 1610, 1606>>,   \* U+0642 U+0637 U+0639 SP U+0645 U+0627 SP U+0628 U+064A U+0646
       <<1602, 1591, 1593, 32, 1605, 1580, 1575, 1610, 1576, 1607>>,   \* U+0642 U+0637 U+0639 SP U+0645 U+062C U+0627 U+064A U+0628 U+0647
       <<1602, 1591, 1608, 1593, 1575, 1578, 32, 1605, 1580, 1575, 1610, 1576, 1607, 1575>>,   \* U+0642 U+0637 U+0648 U+0639 U+0627 U+062A SP U+0645 U+062C U+0627 U+064A U+0628 U+0647 U+0627
       <<105, 115, 115, 117, 101>>,   \* issue
       <<112, 114, 111, 98, 108, 101, 109>>,   \* problem
       <<101, 114, 114, 111, 114>>,   \* error
       <<100, 111, 119, 110>>,   \* down
       <<111, 102, 102, 108, 105, 110, 101>>,   \* offline
       <<110, 111, 116, 32, 119, 111, 114, 107, 105, 110, 103>>,   \* not working
       <<102, 97, 105, 108, 101, 100>>,   \* failed
       <<102, 97, 117, 108, 116>>,   \* fault
       <<112, 111, 114, 116, 32, 100, 111, 119, 110>>,   \* port down
       <<112, 111, 114, 116, 115, 32, 100, 111, 119, 110>>,   \* ports down
       <<108, 105, 110, 107, 32, 100, 111, 119, 110>>,   \* link down
       <<116, 114, 105, 103, 103, 101, 114>>,   \* trigger
       <<97, 108, 97, 114, 109>>,   \* alarm
       <<117, 110, 107, 110, 111, 119, 110, 32, 115, 116, 97, 116, 117, 115>>,   \* unknown status
       <<116, 105, 99, 107, 101, 116>>,   \* ticket
       <<116, 105, 99, 107, 101, 116, 105, 100>> >>   \* ticketid

\* patterns['resolution']: the arabic list, then the english list (the order _analyze_sender_behavior scans)
patterns_resolution ==
    << <<1578, 1605>>,   \* U+062A U+0645
       <<1575, 1606, 1581, 1604>>,   \* U+0627 U+0646 U+062D U+0644
       <<1575, 1588, 1578, 1594, 1604>>,   \* U+0627 U+0634 U+062A U+063A U+0644
       <<1588, 1594, 1575, 1604>>,   \* U+0634 U+063A U+0627 U+0644
       <<100, 111, 110, 101>>,   \* done
       <<115, 111, 108, 118, 101, 100>>,   \* solved
       <<102, 105, 120, 101, 100>>,   \* fixed
       <<114, 101, 99, 104, 101, 99, 107>>,   \* recheck
       <<1603, 1605, 1604, 1606>>,   \* U+0643 U+0645 U+0644 U+0646
       <<1575, 1606, 1578, 1607, 1609>>,   \* U+0627 U+0646 U+062A U+0647 U+0649
       <<1582, 1604, 1575, 1589>>,   \* U+062E U+0644 U+0627 U+0635
       <<1590, 1576, 1591>>,   \* U+0636 U+0628 U+0637
       <<1578, 1605, 1575, 1605>>,   \* U+062A U+0645 U+0627 U+0645
       <<111, 107>>,   \* ok
       <<1593, 1575, 1588, 1578, 32, 1575, 1610, 1583, 1603>>,   \* U+0639 U+0627 U+0634 U+062A SP U+0627 U+064A U+062F U+0643
       <<1608, 1575, 1610, 1583, 1603>>,   \* U+0648 U+0627 U+064A U+062F U+0643
       <<1578, 1583, 1604, 1604>>,   \* U+062A U+062F U+0644 U+0644
       <<1605, 1605, 1606, 1608, 1606>>,   \* U+0645 U+0645 U+0646 U+0648 U+0646
       <<1588, 1603, 1585, 1575>>,   \* U+0634 U+0643 U+0631 U+0627
       <<116, 104, 97, 110, 107, 32, 121, 111, 117>>,   \* thank you
       <<100, 111, 110, 101>>,   \* done
       <<102, 105, 120, 101, 100>>,   \* fixed
       <<115, 111, 108, 118, 101, 100>>,   \* solved
       <<114, 101, 115, 111, 108, 118, 101, 100>>,   \* resolved
       <<99, 111, 109, 112, 108, 101, 116, 101, 100>>,   \* completed
       <<114, 101, 99, 104, 101, 99, 107>>,   \* recheck
       <<119, 111, 114, 107, 105, 110, 103, 32, 110, 111, 119>>,   \* working now
       <<97, 108, 108, 32, 103, 111, 111, 100>>,   \* all good
       <<111, 107>>,   \* ok
       <<115, 111, 108, 118, 101, 100>>,   \* solved
       <<116, 104, 97, 110, 107, 32, 121, 111, 117>>,   \* thank you
       <<116, 104, 97, 110, 107, 115>>,   \* thanks
       <<119, 101, 108, 99, 111, 109, 101>> >>   \* welcome

\* The alternatives of the pattern  \b(done|recheck|...)\b  of _analyze_sender_behavior (line 350)
response_words ==
    << <<100, 111, 110, 101>>,   \* done
       <<114, 101, 99, 104, 101, 99, 107>>,   \* recheck
       <<1578, 1605, 1575, 1605, 32, 1581, 1576, 1610, 1576, 1610>>,   \* U+062A U+0645 U+0627 U+0645 SP U+062D U+0628 U+064A U+0628 U+064A
       <<1607, 1587, 1607, 32, 1575, 1580, 1610, 1603>> >>   \* U+0647 U+0633 U+0647 SP U+0627 U+062C U+064A U+0643

\* The bodies the roster model draws from: an issue report, a resolution with
\* the word "done", an issue report that thanks, and a body that holds "done"
\* inside a word.
MemberBodies ==
    {"port down, ticket 1234567", "done, fixed", "link down, thanks", "nothing undone"}

\* Every body a message of the model can have.
Bodies == Contents \cup MemberBodies

\* ------------------------------------------------- parsing and classification
\* The per-message record parse_whatsapp_file builds from a body (the
\* timestamp and sender come from the header).
ParsedContent ==
    [c \in Bodies |->
        LET ticket_ids == FindTickets(CodePoints(c), 1) IN
        [ticket_ids    |-> ticket_ids,
         has_ticket_id |-> Len(ticket_ids) > 0,
         language      |-> _detect_language(CodePoints(c))]]

\* Sender type chosen by classify_messages.
SenderType(sender) ==
    IF sender \in customers THEN "customer"
    ELSE IF sender \in support_staff THEN "support"
    ELSE "unknown"

\* message_type of every (sender type, body) pair, as classify_messages
\* computes it: the body is lowered before _classify_message_type sees it.
MessageType ==
    [st \in {"customer", "support", "unknown"} |->
        [c \in Bodies |->
            _classify_message_type(st, Lower(CodePoints(c)), ParsedContent[c].has_ticket_id)]]

\* category of an Issue opened by a message with body c.
Category == [c \in Contents |-> _categorize_issue(CodePoints(c))]

\* The Message that classify_messages appends for a parsed message.
ClassifyMessage(timestamp, sender, content) ==
    [timestamp     |-> timestamp,
     sender        |-> sender,
     sender_type   |-> SenderType(sender),
     content       |-> content,
     message_type  |-> MessageType[SenderType(sender)][content],
     language      |-> ParsedContent[content].language,
     has_ticket_id |-> ParsedContent[content].has_ticket_id,
     ticket_ids    |-> ParsedContent[content].ticket_ids]

\* ---------------------------------------------------------------- the state
VARIABLES
    messages,       \* self.messages: the prefix the loop has consumed so far
    issues,         \* self.issues
    current_issue,  \* index into issues of the Issue current_issue refers to; 0 is None
    issue_counter,
    pc,             \* "loop": inside the for loop; "done": after the closing pass;
                    \* "reported": calculate_kpis has returned
    kpis,           \* the dict calculate_kpis returned; None before the call
    matches,        \* the matches re.findall found in the transcript (line 181)
    raw_messages,   \* self.raw_messages
    files,          \* the roster files on disk: members.json, members_template.json
                    \* and members_classified.json, each None while it does not exist
    self_customers,     \* self.customers
    self_support_staff, \* self.support_staff
    first_run,      \* None, or in a second run what the first run ended with: its
                    \* messages and its member sets
    run,            \* 1 in the first run of the analyzer on a transcript, 2 in a
                    \* second run that loads the roster the first one saved
    classified,     \* one call of _classify_message_type: its arguments and,
                    \* once it has returned, its result
    threads,        \* the list threads of detect_conversation_threads
    current_thread  \* its current_thread, None or a thread

\* The roster files and the member sets.
roster == <<files, self_customers, self_support_staff, first_run, run>>

\* The variables of _classify_message_type called on its own and of
\* detect_conversation_threads (responder_analysis.py).
apart == <<classified, threads, current_thread>>

\* The variables the segmentation loop neither reads nor writes.
outside_loop == <<kpis, matches, raw_messages, roster, apart>>

vars == <<messages, issues, current_issue, issue_counter, pc, kpis, matches, raw_messages,
          files, self_customers, self_support_staff, first_run, run, classified, threads,
          current_thread>>

\* Optional[timedelta] / Optional[datetime]: None, or a value.
None == <<>>

Some(v) == <<v>>

\* Python truthiness of an Optional[timedelta]: None and timedelta(0) are falsy.
Truthy(opt) == opt # None /\ opt[1] # 0

\* max_gap = timedelta(hours=2), in minutes.
max_gap == 120

\* f"ISSUE_{issue_counter:04d}"
IssueId(n) ==
    "ISSUE_" \o (IF n < 10 THEN "000" ELSE IF n < 100 THEN "00" ELSE IF n < 1000 THEN "0" ELSE "")
             \o ToString(n)

\* The messages the transcript can continue with: timestamps never decrease.
NextMessages ==
    LET stamps == IF messages = <<>> THEN {0}
                  ELSE {messages[Len(messages)].timestamp + g : g \in Gaps}
    IN  {ClassifyMessage(t, s, c) : t \in stamps, s \in customers, c \in CustomerContents}
        \cup
        {ClassifyMessage(t, s, c) : t \in stamps, s \in support_staff, c \in SupportContents}

\* Timestamp of the last message of an Issue (issue.messages[-1].timestamp);
\* an Issue holds references to Message objects, modelled as indices into msgs.
LastTimestamp(issue, msgs) == msgs[issue.messages[Len(issue.messages)]].timestamp

\* Mutant: the previous Issue is closed as pending whatever its status.
ClosePrevious_AnyStatus(issue, msgs) ==
    [issue EXCEPT !.status = "pending", !.end_time = Some(LastTimestamp(issue, msgs))]

\* Mutant: the message that breaks the thread is also appended to the Issue
\* it closes.
ClosePrevious_AlsoAppends(issue, msgs) ==
    IF issue.status = "open"
    THEN [issue EXCEPT !.status = "pending", !.end_time = Some(LastTimestamp(issue, msgs)),
                       !.messages = Append(@, Len(msgs) + 1)]
    ELSE issue

\* Mutant: the closed Issue's end_time is taken from its first message.
ClosePrevious_EndAtStart(issue, msgs) ==
    IF issue.status = "open"
    THEN [issue EXCEPT !.status = "pending", !.end_time = Some(issue.start_time)]
    ELSE issue

\* Lines 485-487 and 554-556: an open Issue is closed as pending.
ClosePrevious(issue, msgs) ==
    IF issue.status = "open"
    THEN [issue EXCEPT !.status = "pending", !.end_time = Some(LastTimestamp(issue, msgs))]
    ELSE issue

\* Lines 490-506 and 559-575: the Issue opened by message number idx.
NewIssue(msg, idx, counter) ==
    [issue_id             |-> IssueId(counter),
     ticket_ids           |-> msg.ticket_ids,
     reporter             |-> msg.sender,
     initial_message      |-> msg.content,
     start_time           |-> msg.timestamp,
     end_time             |-> None,
     status               |-> "open",
     messages             |-> <<idx>>,
     first_response_time  |-> None,
     resolution_time      |-> None,
     total_responses      |-> 0,
     category             |-> Category[msg.content],
     language             |-> msg.language,
     support_participants |-> {}]

\* Mutant: ticket continuity is left out of the rule.
belongs_to_issue_NoTicket(issue, msg, msgs) ==
    LET time_gap == msg.timestamp - LastTimestamp(issue, msgs) IN
    \/ time_gap <= max_gap
    \/ (msg.sender_type = "customer" /\ msg.message_type \in {"follow_up", "general"})

\* Mutant: the rule that a customer follow_up or general message always
\* continues the thread is left out.
belongs_to_issue_NoCustomerRule(issue, msg, msgs) ==
    LET time_gap == msg.timestamp - LastTimestamp(issue, msgs) IN
    \/ time_gap <= max_gap
    \/ \E k \in 1..Len(issue.ticket_ids) :
           \E j \in 1..Len(msg.ticket_ids) : issue.ticket_ids[k] = msg.ticket_ids[j]

\* Lines 513-520.
belongs_to_issue(issue, msg, msgs) ==
    LET time_gap == msg.timestamp - LastTimestamp(issue, msgs) IN
    \/ time_gap <= max_gap
    \/ \E k \in 1..Len(issue.ticket_ids) :
           \E j \in 1..Len(msg.ticket_ids) : issue.ticket_ids[k] = msg.ticket_ids[j]
    \/ (msg.sender_type = "customer" /\ msg.message_type \in {"follow_up", "general"})

\* Mutant: `if not first_response_time` in place of `is None`, so that a zero
\* duration is set again.
FirstResponse_Falsy(issue, msg) ==
    IF ~Truthy(issue.first_response_time)
       /\ msg.message_type \in {"acknowledgment", "response", "request_info"}
    THEN Some(msg.timestamp - issue.start_time)
    ELSE issue.first_response_time

\* Lines 530-532: the first response time, set while it is None.
FirstResponse(issue, msg) ==
    IF issue.first_response_time = None
       /\ msg.message_type \in {"acknowledgment", "response", "request_info"}
    THEN Some(msg.timestamp - issue.start_time)
    ELSE issue.first_response_time

\* Mutant: every support message is counted as a response, resolutions too.
CountResponse_AnySupport(issue, msg) == issue.total_responses + 1

\* Lines 536-537.
CountResponse(issue, msg) ==
    IF msg.message_type \in {"response", "acknowledgment", "request_info"}
    THEN issue.total_responses + 1
    ELSE issue.total_responses

\* Mutant: a resolution closes the Issue without recording resolution_time.
Resolve_StatusOnly(issue, msg) ==
    IF msg.message_type = "resolution"
    THEN [issue EXCEPT !.status = "resolved", !.end_time = Some(msg.timestamp)]
    ELSE issue

\* Lines 540-543.
Resolve(issue, msg) ==
    IF msg.message_type = "resolution"
    THEN [issue EXCEPT !.status = "resolved",
                       !.end_time = Some(msg.timestamp),
                       !.resolution_time = Some(msg.timestamp - issue.start_time)]
    ELSE issue

\* Lines 526-544: what a support message does to the Issue it is appended to.
TrackSupport(issue, msg) ==
    IF msg.sender_type = "support"
    THEN Resolve([issue EXCEPT !.support_participants = @ \cup {msg.sender},
                               !.first_response_time = FirstResponse(issue, msg),
                               !.total_responses = CountResponse(issue, msg)], msg)
    ELSE issue

\* Lines 547-549: ticket ids of the message not yet in the Issue are appended.
RECURSIVE AddTicketIds(_, _)
AddTicketIds(ticket_ids, new) ==
    IF new = <<>> THEN ticket_ids
    ELSE AddTicketIds(IF \E k \in 1..Len(ticket_ids) : ticket_ids[k] = Head(new)
                      THEN ticket_ids ELSE Append(ticket_ids, Head(new)),
                      Tail(new))

\* Lines 523-549: message number idx is appended to the Issue.
AppendMessage(issue, msg, idx) ==
    LET appended == [issue EXCEPT !.messages = Append(@, idx)]
        tracked  == TrackSupport(appended, msg)
    IN  [tracked EXCEPT !.ticket_ids = AddTicketIds(@, msg.ticket_ids)]

\* Mutant: the closing pass marks every open Issue pending.
CloseRemaining_AlwaysPending(issue, msgs) ==
    IF issue.status = "open"
    THEN [issue EXCEPT !.end_time = Some(LastTimestamp(issue, msgs)), !.status = "pending"]
    ELSE issue

\* Mutant: the closing pass sets the status and leaves end_time unset.
CloseRemaining_NoEndTime(issue, msgs) ==
    IF issue.status = "open"
    THEN [issue EXCEPT !.status = IF Truthy(issue.first_response_time)
                                  THEN "pending" ELSE "no_response"]
    ELSE issue

\* Lines 581-586: the closing pass on one Issue.
CloseRemaining(issue, msgs) ==
    IF issue.status = "open"
    THEN [issue EXCEPT !.end_time = Some(LastTimestamp(issue, msgs)),
                       !.status = IF Truthy(issue.first_response_time)
                                  THEN "pending" ELSE "no_response"]
    ELSE issue

\* The analyzer was constructed on a members.json that lists the roster
\* customers and support_staff (lines 56-61); no roster file was written yet.
Configured ==
    /\ files = [members            |-> Some([customers     |-> <<"c1">>,
                                             support_staff |-> <<"s1", "s2">>]),
                members_template   |-> None,
                members_classified |-> None]
    /\ self_customers = customers
    /\ self_support_staff = support_staff
    /\ first_run = None
    /\ run = 1

\* Nothing of _classify_message_type on its own or of
\* detect_conversation_threads has run.
Idle ==
    /\ classified = None
    /\ threads = <<>>
    /\ current_thread = None

Init ==
    /\ messages = <<>>
    /\ issues = <<>>
    /\ current_issue = 0
    /\ issue_counter = 1
    /\ pc = "loop"
    /\ kpis = None
    /\ matches = <<>>
    /\ raw_messages = <<>>
    /\ Configured
    /\ Idle

\* The for loop has a next message to take.
InLoop == pc = "loop" /\ Len(messages) < MaxMsgs

\* The loop takes the next message of self.messages.
Take(msg) ==
    /\ messages' = Append(messages, msg)
    /\ pc' = pc
    /\ UNCHANGED outside_loop

\* Mutant: issue_counter is not incremented after an Issue is created.
OpenIssue_NoIncrement(msg) ==
    LET idx    == Len(messages) + 1
        closed == IF current_issue # 0
                  THEN [issues EXCEPT ![current_issue] = ClosePrevious(@, messages)]
                  ELSE issues
    IN  /\ issues' = Append(closed, NewIssue(msg, idx, issue_counter))
        /\ current_issue' = Len(issues) + 1
        /\ issue_counter' = issue_counter

\* Issues with the current one closed as pending if it is open, and a new
\* Issue for msg appended.
OpenIssue(msg) ==
    LET idx    == Len(messages) + 1
        closed == IF current_issue # 0
                  THEN [issues EXCEPT ![current_issue] = ClosePrevious(@, messages)]
                  ELSE issues
    IN  /\ issues' = Append(closed, NewIssue(msg, idx, issue_counter))
        /\ current_issue' = Len(issues) + 1
        /\ issue_counter' = issue_counter + 1

\* Lines 482-509: a customer issue_report always starts a new Issue.
StartOnReport ==
    /\ InLoop
    /\ \E msg \in NextMessages :
        /\ msg.message_type = "issue_report" /\ msg.sender_type = "customer"
        /\ Take(msg)
        /\ OpenIssue(msg)

\* Line 512 false: no Issue yet and the message is no customer issue_report;
\* the loop body does nothing.
SkipWithoutIssue ==
    /\ InLoop
    /\ \E msg \in NextMessages :
        /\ ~(msg.message_type = "issue_report" /\ msg.sender_type = "customer")
        /\ current_issue = 0
        /\ Take(msg)
        /\ UNCHANGED <<issues, current_issue, issue_counter>>

\* Lines 512-549: the message belongs to the current Issue.
AddToCurrent ==
    /\ InLoop
    /\ \E msg \in NextMessages :
        /\ ~(msg.message_type = "issue_report" /\ msg.sender_type = "customer")
        /\ current_issue # 0
        /\ belongs_to_issue(issues[current_issue], msg, messages)
        /\ Take(msg)
        /\ issues' = [issues EXCEPT
                         ![current_issue] = AppendMessage(@, msg, Len(messages) + 1)]
        /\ UNCHANGED <<current_issue, issue_counter>>

\* Mutant: a message that neither continues the thread nor may open an Issue
\* closes the current Issue as pending.
NotBelonging_ClosesIssue ==
    /\ InLoop
    /\ \E msg \in NextMessages :
        /\ ~(msg.message_type = "issue_report" /\ msg.sender_type = "customer")
        /\ current_issue # 0
        /\ ~belongs_to_issue(issues[current_issue], msg, messages)
        /\ Take(msg)
        /\ IF msg.sender_type = "customer" /\ msg.message_type \in {"issue_report", "general"}
           THEN OpenIssue(msg)
           ELSE /\ issues' = [issues EXCEPT ![current_issue] = ClosePrevious(@, messages)]
                /\ UNCHANGED <<current_issue, issue_counter>>

\* Lines 550-577: the message does not belong to the current Issue.
NotBelonging ==
    /\ InLoop
    /\ \E msg \in NextMessages :
        /\ ~(msg.message_type = "issue_report" /\ msg.sender_type = "customer")
        /\ current_issue # 0
        /\ ~belongs_to_issue(issues[current_issue], msg, messages)
        /\ Take(msg)
        /\ IF msg.sender_type = "customer" /\ msg.message_type \in {"issue_report", "general"}
           THEN OpenIssue(msg)
           ELSE UNCHANGED <<issues, current_issue, issue_counter>>

\* Lines 579-586: the stream is exhausted; every Issue still open is closed.
Finalize ==
    /\ pc = "loop"
    /\ pc' = "done"
    /\ issues' = [k \in 1..Len(issues) |-> CloseRemaining(issues[k], messages)]
    /\ UNCHANGED <<messages, current_issue, issue_counter, outside_loop>>

\* ------------------------------------------------------------ calculate_kpis
\* Of the dict calculate_kpis returns, the model keeps the counts, the two
\* rates, the latency statistics, total_messages and the response_time_ranges
\* of timing_analysis.  A float quotient n / d is kept exact, as the pair of
\* its numerator and denominator.
Ratio(n, d) == [num |-> n, den |-> d]

\* Lines 643-645: len([i for i in self.issues if i.status == status]).
CountStatus(iss, status) == Cardinality({k \in 1..Len(iss) : iss[k].status = status})

\* Lines 648, 659 and 754: [t for t in latencies if t], the truthy latencies in
\* Issue order, as minutes.
Truthies(latencies) ==
    LET kept == SelectSeq(latencies, Truthy)
    IN  [k \in 1..Len(kept) |-> kept[k][1]]

\* Mutant: one entry for every counted response of an Issue, not one for the
\* Issue.
RECURSIVE response_times_PerResponse(_)
response_times_PerResponse(iss) ==
    IF iss = <<>> THEN <<>>
    ELSE [n \in 1..Head(iss).total_responses |-> Head(iss).first_response_time[1]]
         \o response_times_PerResponse(Tail(iss))

\* Lines 648 and 754.
response_times(iss) == Truthies([k \in 1..Len(iss) |-> iss[k].first_response_time])

\* Line 659.
resolution_times(iss) == Truthies([k \in 1..Len(iss) |-> iss[k].resolution_time])

\* sum(times, timedelta())
RECURSIVE SumOf(_)
SumOf(times) == IF times = <<>> THEN 0 ELSE Head(times) + SumOf(Tail(times))

\* min(times) and max(times) of a non-empty list
MinOf(times) == CHOOSE t \in {times[k] : k \in 1..Len(times)} :
                    \A k \in 1..Len(times) : t <= times[k]

MaxOf(times) == CHOOSE t \in {times[k] : k \in 1..Len(times)} :
                    \A k \in 1..Len(times) : t >= times[k]

\* Lines 649-656 and 660-667: the average of the list, timedelta() when it is
\* empty; the minimum and the maximum, None when it is empty.
Average(times) == IF times # <<>> THEN Ratio(SumOf(times), Len(times)) ELSE Ratio(0, 1)

Minimum(times) == IF times # <<>> THEN Some(MinOf(times)) ELSE None

Maximum(times) == IF times # <<>> THEN Some(MaxOf(times)) ELSE None

\* Lines 719-720: (count / total_issues * 100) if total_issues > 0 else 0.
Rate(count, total_issues) ==
    IF total_issues > 0 THEN Ratio(count * 100, total_issues) ELSE Ratio(0, 1)

\* Lines 723-726: extreme.total_seconds() / divisor if extreme else None, with
\* the divisor 60 for minutes (1 in the model's unit) and 3600 for hours (60).
Extreme(extreme, divisor) ==
    IF Truthy(extreme) THEN Some(Ratio(extreme[1], divisor)) ELSE None

\* Lines 754-761: the histogram of the response times; total_seconds() of a
\* latency of m minutes is m * 60.
response_time_ranges(iss) ==
    LET rts == response_times(iss)
        Within(lower, upper) ==
            Cardinality({k \in 1..Len(rts) : lower <= rts[k] * 60 /\ rts[k] * 60 < upper})
    IN  [range \in {"under_5_min", "5_to_15_min", "15_to_30_min", "30_to_60_min",
                    "over_1_hour"} |->
            CASE range = "under_5_min"  -> Cardinality({k \in 1..Len(rts) : rts[k] * 60 < 300})
              [] range = "5_to_15_min"  -> Within(300, 900)
              [] range = "15_to_30_min" -> Within(900, 1800)
              [] range = "30_to_60_min" -> Within(1800, 3600)
              [] range = "over_1_hour"  -> Cardinality({k \in 1..Len(rts) : rts[k] * 60 >= 3600})]

\* Lines 738-767; hour_distribution and weekday_distribution need the calendar
\* date of start_time, which minutes counted from the first message do not
\* carry, and are left out.  {} is the function with the empty domain.
_analyze_timing_patterns(iss) ==
    IF iss = <<>> THEN [key \in {} |-> 0]
    ELSE [response_time_ranges |-> response_time_ranges(iss)]

\* Lines 639-736.
calculate_kpis(iss, msgs) ==
    IF iss = <<>> THEN [error |-> "No issues found"]
    ELSE LET total_issues == Len(iss)
             avg_response_time   == Average(response_times(iss))
             avg_resolution_time == Average(resolution_times(iss))
         IN  [total_issues               |-> total_issues,
              resolved_issues            |-> CountStatus(iss, "resolved"),
              pending_issues             |-> CountStatus(iss, "pending"),
              no_response_issues         |-> CountStatus(iss, "no_response"),
              resolution_rate            |-> Rate(CountStatus(iss, "resolved"), total_issues),
              response_rate              |-> Rate(Len(response_times(iss)), total_issues),
              avg_response_time_minutes  |-> avg_response_time,
              avg_resolution_time_hours  |->
                  Ratio(avg_resolution_time.num, avg_resolution_time.den * 60),
              min_response_time_minutes  |-> Extreme(Minimum(response_times(iss)), 1),
              max_response_time_minutes  |-> Extreme(Maximum(response_times(iss)), 1),
              min_resolution_time_hours  |-> Extreme(Minimum(resolution_times(iss)), 60),
              max_resolution_time_hours  |-> Extreme(Maximum(resolution_times(iss)), 60),
              total_customers            |-> Cardinality(customers),
              total_support_staff        |-> Cardinality(support_staff),
              total_messages             |-> Len(msgs),
              timing_analysis            |-> _analyze_timing_patterns(iss)]

\* calculate_kpis is called on the finished Issue set (main, through
\* generate_report, line 771).
CalculateKpis ==
    /\ pc = "done"
    /\ pc' = "reported"
    /\ kpis' = Some(calculate_kpis(issues, messages))
    /\ UNCHANGED <<messages, issues, current_issue, issue_counter, matches, raw_messages,
                   roster, apart>>

Next ==
    \/ StartOnReport
    \/ SkipWithoutIssue
    \/ AddToCurrent
    \/ NotBelonging
    \/ Finalize
    \/ CalculateKpis

Spec == Init /\ [][Next]_vars

\* -------------------------------------------------------- parse_whatsapp_file
\* The transcript is modelled by `matches`, the list re.findall returns for
\* it (line 181): one (date_str, time_str, am_pm, sender, message) group per
\* message header found, in transcript order.  sender and message are drawn
\* without surrounding white space, on which str.strip() changes nothing.
date_strs == {"1/5/24", "13/1/24"}

time_strs == {"12:05", "1:05"}

am_pms == {"AM", "PM"}

Match(date_str, time_str, am_pm, sender, message) ==
    [date_str |-> date_str, time_str |-> time_str, am_pm |-> am_pm,
     sender |-> sender, message |-> message]

\* Every date and clock reading from a customer and from a support engineer,
\* and three more: an hour %I rejects, a system message, and a four-digit
\* year that names the day "1/5/24" names.
Matches ==
    {Match(d, t, p, "c1", "hello") : d \in date_strs, t \in time_strs, p \in am_pms}
    \cup {Match(d, t, p, "s1", "on it") : d \in date_strs, t \in time_strs, p \in am_pms}
    \cup {Match("1/5/24", "0:05", "AM", "c1", "hello"),
          Match("1/5/24", "1:05", "PM", "c1", "<Media omitted>"),
          Match("1/5/2024", "1:05", "AM", "s1", "on it")}

\* system_indicators of _is_system_message, in source order, as code points
system_indicators ==
    << <<77, 101, 115, 115, 97, 103, 101, 115, 32, 97, 110, 100, 32, 99, 97, 108, 108, 115, 32, 97, 114, 101, 32, 101, 110, 100, 45, 116, 111, 45, 101, 110, 100, 32, 101, 110, 99, 114, 121, 112, 116, 101, 100>>,   \* Messages and calls are end-to-end encrypted
       <<99, 114, 101, 97, 116, 101, 100, 32, 103, 114, 111, 117, 112>>,   \* created group
       <<97, 100, 100, 101, 100, 32, 121, 111, 117>>,   \* added you
       <<60, 77, 101, 100, 105, 97, 32, 111, 109, 105, 116, 116, 101, 100, 62>>,   \* <Media omitted>
       <<84, 104, 105, 115, 32, 109, 101, 115, 115, 97, 103, 101, 32, 119, 97, 115, 32, 100, 101, 108, 101, 116, 101, 100>>,   \* This message was deleted
       <<89, 111, 117, 32, 119, 101, 114, 101, 32, 97, 100, 100, 101, 100>>,   \* You were added
       <<114, 101, 109, 111, 118, 101, 100>>,   \* removed
       <<99, 104, 97, 110, 103, 101, 100, 32, 116, 104, 101, 32, 103, 114, 111, 117, 112>>,   \* changed the group
       <<106, 111, 105, 110, 101, 100, 32, 117, 115, 105, 110, 103>>,   \* joined using
       <<108, 101, 102, 116>>,   \* left
       <<76, 101, 97, 114, 110, 32, 109, 111, 114, 101>> >>   \* Learn more
\* Lines 233-248.
_is_system_message(content) == AnyIn(system_indicators, content)

\* The fields of s between the separators sep: str split, as the literal
\* characters of a strptime format cut the input.
RECURSIVE Fields(_, _)
Fields(s, sep) ==
    IF \A i \in 1..Len(s) : s[i] # sep THEN <<s>>
    ELSE LET i == CHOOSE i \in 1..Len(s) : s[i] = sep /\ \A j \in 1..(i - 1) : s[j] # sep
         IN  <<SubSeq(s, 1, i - 1)>> \o Fields(SubSeq(s, i + 1, Len(s)), sep)

\* int() of a string of decimal digits.
RECURSIVE Number(_)
Number(digits) ==
    IF digits = <<>> THEN 0
    ELSE LET c == digits[Len(digits)]
             d == IF c \in 48..57 THEN c - 48 ELSE IF c \in 1632..1641 THEN c - 1632 ELSE c - 1776
         IN  10 * Number(SubSeq(digits, 1, Len(digits) - 1)) + d

\* A strptime directive matches a whole field: between lower and upper digits
\* whose value is within min..max.
Directive(field, lower, upper, min, max) ==
    /\ Len(field) \in lower..upper
    /\ \A i \in 1..Len(field) : IsDigit(field[i])
    /\ Number(field) \in min..max

\* The proleptic Gregorian calendar of datetime: leap years, the length of a
\* month, and the ordinal of a day (date.toordinal).
IsLeap(year) == year % 4 = 0 /\ (year % 100 # 0 \/ year % 400 = 0)

DaysInMonth(year, month) ==
    IF month = 2 THEN (IF IsLeap(year) THEN 29 ELSE 28)
    ELSE IF month \in {4, 6, 9, 11} THEN 30 ELSE 31

RECURSIVE DaysBeforeMonth(_, _)
DaysBeforeMonth(year, month) ==
    IF month = 1 THEN 0
    ELSE DaysBeforeMonth(year, month - 1) + DaysInMonth(year, month - 1)

Ordinal(year, month, day) ==
    LET y == year - 1
    IN  y * 365 + (y \div 4) - (y \div 100) + (y \div 400) + DaysBeforeMonth(year, month) + day

\* datetime.strptime(f"{date_str} {time_str}", fmt) for the formats of lines
\* 263-267 that can match: month_first tells %m/%d from %d/%m, year_digits is
\* 2 for %y and 4 for %Y.  The result is the datetime in minutes, or None when
\* strptime raises ValueError.
strptime(date_str, time_str, am_pm, month_first, year_digits) ==
    LET date   == Fields(date_str, 47)
        clock  == Fields(time_str, 58)
        month  == IF month_first THEN date[1] ELSE date[2]
        day    == IF month_first THEN date[2] ELSE date[1]
        yy     == Number(date[3])
        year   == IF year_digits = 4 THEN yy ELSE IF yy < 69 THEN 2000 + yy ELSE 1900 + yy
        I      == Number(clock[1])
        hour   == IF am_pm = "PM" THEN (IF I = 12 THEN 12 ELSE I + 12)
                  ELSE (IF I = 12 THEN 0 ELSE I)
    IN  IF /\ Len(date) = 3 /\ Len(clock) = 2
           /\ Directive(month, 1, 2, 1, 12)
           /\ Directive(day, 1, 2, 1, 31)
           /\ Directive(date[3], year_digits, year_digits, IF year_digits = 4 THEN 1 ELSE 0, 9999)
           /\ Directive(clock[1], 1, 2, 1, 12)
           /\ Directive(clock[2], 1, 2, 0, 59)
           /\ Number(day) <= DaysInMonth(year, Number(month))
        THEN Some((Ordinal(year, Number(month), Number(day)) * 24 + hour) * 60
                  + Number(clock[2]))
        ELSE None

\* The first of a list of results that is not None (the for loop of lines
\* 269-273, which returns at the first format that parses).
RECURSIVE FirstParsed(_)
FirstParsed(results) ==
    IF results = <<>> THEN None
    ELSE IF Head(results) # None THEN Head(results) ELSE FirstParsed(Tail(results))

\* Lines 250-275.  The second format, "%m/%d/%y %I:%M %PM", holds the
\* directive %P, which strptime rejects for every input.
_parse_timestamp(date_str, time_str, am_pm) ==
    FirstParsed(<< strptime(date_str, time_str, am_pm, TRUE, 2),
                   None,
                   strptime(date_str, time_str, am_pm, FALSE, 2),
                   strptime(date_str, time_str, am_pm, TRUE, 4),
                   strptime(date_str, time_str, am_pm, FALSE, 4) >>)

\* The timestamp of every match the model draws from.
Timestamp ==
    [match \in Matches |->
        _parse_timestamp(CodePoints(match.date_str), CodePoints(match.time_str), match.am_pm)]

\* Lines 189-196: a match is skipped when its message is a system message or
\* its timestamp does not parse.
Accepted(match) ==
    /\ ~_is_system_message(CodePoints(match.message))
    /\ Timestamp[match] # None

\* Lines 204-211: the dict appended to raw_messages.
RawMessage(match) ==
    [timestamp     |-> Timestamp[match][1],
     sender        |-> match.sender,
     content       |-> match.message,
     has_ticket_id |-> ParsedContent[match.message].has_ticket_id,
     ticket_ids    |-> ParsedContent[match.message].ticket_ids,
     language      |-> ParsedContent[match.message].language]

\* Mutant: a message is placed before the messages of its own timestamp.
RECURSIVE Insert_BeforeEqual(_, _)
Insert_BeforeEqual(sorted, msg) ==
    IF sorted = <<>> THEN <<msg>>
    ELSE IF Head(sorted).timestamp < msg.timestamp
         THEN <<Head(sorted)>> \o Insert_BeforeEqual(Tail(sorted), msg)
         ELSE <<msg>> \o sorted

\* msg placed in a sorted list after every message whose timestamp is not
\* later than its own.
RECURSIVE Insert(_, _)
Insert(sorted, msg) ==
    IF sorted = <<>> THEN <<msg>>
    ELSE IF Head(sorted).timestamp <= msg.timestamp
         THEN <<Head(sorted)>> \o Insert(Tail(sorted), msg)
         ELSE <<msg>> \o sorted

\* Line 214: list.sort(key=timestamp), a stable sort, computed by insertion
\* from left to right.
RECURSIVE SortByTimestamp(_)
SortByTimestamp(msgs) ==
    IF msgs = <<>> THEN <<>>
    ELSE Insert(SortByTimestamp(SubSeq(msgs, 1, Len(msgs) - 1)), msgs[Len(msgs)])

\* ------------------------------------------------------ the member roster
\* The lists of the template load_members_config writes when members.json
\* does not exist (lines 64-82); its "_instructions" text is left out.  The
\* two names in Arabic letters are named in Latin letters here; CodePoints
\* gives their code points.
template ==
    [customers     |-> <<"+964 783 443 6137", "+964 790 277 3316", "+964 781 203 9859", "+964 771 167 8385">>,
     support_staff |->
     <<"Omar Noc",
      "+964 770 693 8940",
      "+964 782 128 1984",
      "Ahmed Isam",
      "Ali It Earthlink (in Arabic letters)",
      "+964 770 495 3348",
      "Ali Oudah Noc",
      "Haidar Halawa (in Arabic letters)",
      "+964 780 852 5298",
      "Farouk",
      "+964 780 255 8403">>]

\* set(list)
SetOf(list) == {list[i] : i \in 1..Len(list)}

\* Lines 54-90: the member sets load_members_config makes of the file (None
\* when it does not exist), and the template it then writes.
load_members_config(file) ==
    IF file # None
    THEN [customers     |-> SetOf(file[1].customers),
          support_staff |-> SetOf(file[1].support_staff),
          written       |-> None]
    ELSE [customers     |-> SetOf(template.customers),
          support_staff |-> SetOf(template.support_staff),
          written       |-> Some(template)]

\* a < b for two str: code point by code point, a proper prefix first.
RECURSIVE StrLess(_, _)
StrLess(a, b) ==
    IF b = <<>> THEN FALSE
    ELSE IF a = <<>> THEN TRUE
    ELSE IF a[1] # b[1] THEN a[1] < b[1]
    ELSE StrLess(Tail(a), Tail(b))

\* sorted(list(names)) of a set of names
RECURSIVE sorted(_)
sorted(names) ==
    IF names = {} THEN <<>>
    ELSE LET first == CHOOSE n \in names :
                          \A m \in names \ {n} : StrLess(CodePoints(n), CodePoints(m))
         IN  <<first>> \o sorted(names \ {first})

\* Mutant: the support list is saved empty.
_save_classification_CustomersOnly(cust, supp) ==
    [customers |-> sorted(cust), support_staff |-> <<>>]

\* Lines 365-373: the config _save_classification writes to
\* members_classified.json.
_save_classification(cust, supp) ==
    [customers |-> sorted(cust), support_staff |-> sorted(supp)]

\* Line 350: re.search(r'\b(done|recheck|...)\b', s) finds a match.  Every
\* alternative starts and ends with a word character, so \b holds where the
\* neighbour is no word character or there is none.
ResponseSearch(s) ==
    \E k \in 1..Len(response_words) :
        LET word == response_words[k] IN
        \E i \in 1..(Len(s) - Len(word) + 1) :
            /\ SubSeq(s, i, i + Len(word) - 1) = word
            /\ (i = 1 \/ ~IsWord(s[i - 1]))
            /\ (i + Len(word) > Len(s) \/ ~IsWord(s[i + Len(word)]))

\* Lines 330-351: what one message adds to the counts of
\* _analyze_sender_behavior, by its body.
Behavior ==
    [c \in Bodies |->
        LET content_lower == Lower(CodePoints(c)) IN
        [issue          |-> AnyIn(patterns_issue_keywords, content_lower),
         acknowledgment |-> AnyIn(patterns_acknowledgment, content_lower),
         resolution     |-> AnyIn(patterns_resolution, content_lower),
         response       |-> ResponseSearch(content_lower)]]

\* Lines 323-363.
_analyze_sender_behavior(msgs) ==
    LET Count(field) == Cardinality({k \in 1..Len(msgs) : Behavior[msgs[k].content][field]})
        issue_count       == Count("issue")
        response_count    == Count("response")
        has_resolutions   == Count("resolution")
    IN  [issue_count         |-> issue_count,
         response_count      |-> response_count,
         has_acknowledgments |-> Count("acknowledgment"),
         has_resolutions     |-> has_resolutions,
         likely_customer     |-> issue_count > response_count /\ has_resolutions < 3]

\* Line 218: self.all_senders
all_senders(raws) == {raws[k].sender : k \in 1..Len(raws)}

\* Line 295
unclassified(cust, supp, raws) == (all_senders(raws) \ cust) \ supp

\* Line 300: the messages of one sender
MessagesOf(sender, raws) == SelectSeq(raws, LAMBDA m : m.sender = sender)

\* Mutant: a sender the analysis does not take for a customer is left out.
Classified_CustomersOnly(cust, supp, raws) ==
    LET likely == {sender \in unclassified(cust, supp, raws) :
                       _analyze_sender_behavior(MessagesOf(sender, raws)).likely_customer}
    IN  [customers |-> cust \cup likely, support_staff |-> supp]

\* Lines 295-314: the member sets after the loop over the unclassified
\* senders; the analysis of a sender does not read the sets.
Classified(cust, supp, raws) ==
    LET likely == {sender \in unclassified(cust, supp, raws) :
                       _analyze_sender_behavior(MessagesOf(sender, raws)).likely_customer}
    IN  [customers     |-> cust \cup likely,
         support_staff |-> supp \cup (unclassified(cust, supp, raws) \ likely)]

\* Lines 385-391: the sender type classify_messages gives a sender.
sender_type(sender) ==
    IF sender \in self_customers THEN "customer"
    ELSE IF sender \in self_support_staff THEN "support"
    ELSE "unknown"

\* Lines 381-409: the Message classify_messages appends for msg_data.
Message(msg_data) ==
    [timestamp     |-> msg_data.timestamp,
     sender        |-> msg_data.sender,
     sender_type   |-> sender_type(msg_data.sender),
     content       |-> msg_data.content,
     message_type  |-> MessageType[sender_type(msg_data.sender)][msg_data.content],
     language      |-> msg_data.language,
     has_ticket_id |-> msg_data.has_ticket_id,
     ticket_ids    |-> msg_data.ticket_ids]

\* The transcripts of at most MaxMsgs message headers.
Transcripts == UNION {[1..n -> Matches] : n \in 0..MaxMsgs}

InitParse ==
    /\ matches \in Transcripts
    /\ raw_messages = <<>>
    /\ messages = <<>>
    /\ issues = <<>>
    /\ current_issue = 0
    /\ issue_counter = 1
    /\ kpis = None
    /\ pc = "start"
    /\ Configured
    /\ Idle

\* Lines 159-231.  With no message accepted, line 223 indexes raw_messages[0]
\* of the empty list and the call ends in IndexError, after self.raw_messages
\* was assigned.
ParseWhatsappFile ==
    /\ pc = "start"
    /\ LET accepted == SelectSeq(matches, Accepted)
           appended == [k \in 1..Len(accepted) |-> RawMessage(accepted[k])]
       IN  /\ raw_messages' = SortByTimestamp(appended)
           /\ pc' = IF appended = <<>> THEN "raised" ELSE "parsed"
    /\ UNCHANGED <<matches, messages, issues, current_issue, issue_counter, kpis,
                   roster, apart>>

\* Lines 289-321: classify_members, _save_classification included.
ClassifyMembers ==
    /\ pc = "parsed"
    /\ pc' = "members"
    /\ LET after == Classified(self_customers, self_support_staff, raw_messages) IN
        /\ self_customers' = after.customers
        /\ self_support_staff' = after.support_staff
        /\ files' = [files EXCEPT !.members_classified =
                         Some(_save_classification(after.customers, after.support_staff))]
    /\ UNCHANGED <<matches, raw_messages, messages, issues, current_issue, issue_counter,
                   kpis, first_run, run, apart>>

\* Lines 375-418.
ClassifyMessages ==
    /\ pc = "members"
    /\ messages' = messages \o [k \in 1..Len(raw_messages) |-> Message(raw_messages[k])]
    /\ pc' = "classified"
    /\ UNCHANGED <<matches, raw_messages, issues, current_issue, issue_counter, kpis,
                   roster, apart>>

NextParse ==
    \/ ParseWhatsappFile
    \/ ClassifyMembers
    \/ ClassifyMessages

SpecParse == InitParse /\ [][NextParse]_vars

\* -------------------------------------------- two runs on one transcript
\* The senders of the roster model: one of the configured roster, one of no
\* list, and one of the support list of the template.
MemberSenders == {"c1", "u1", "Farouk"}

\* members.json at the first run: absent, with empty lists, the configured
\* roster, and a roster that names one sender in both lists.
MemberFiles ==
    {None,
     Some([customers |-> <<>>, support_staff |-> <<>>]),
     Some([customers |-> <<"c1">>, support_staff |-> <<"s1", "s2">>]),
     Some([customers |-> <<"c1", "u1">>, support_staff |-> <<"u1", "s1">>])}

\* What parse_whatsapp_file leaves in self.raw_messages: message k was sent
\* in minute k.  The list is not empty, parse_whatsapp_file raises on it.
RawTranscripts ==
    UNION {[1..n -> MemberSenders \X MemberBodies] : n \in 1..MaxMsgs}

RawOf(transcript) ==
    [k \in 1..Len(transcript) |->
        [timestamp     |-> k,
         sender        |-> transcript[k][1],
         content       |-> transcript[k][2],
         has_ticket_id |-> ParsedContent[transcript[k][2]].has_ticket_id,
         ticket_ids    |-> ParsedContent[transcript[k][2]].ticket_ids,
         language      |-> ParsedContent[transcript[k][2]].language]]

\* The analyzer was constructed (lines 40-52) and has parsed a transcript.
InitMembers ==
    /\ \E file \in MemberFiles :
        LET loaded == load_members_config(file) IN
        /\ files = [members            |-> file,
                    members_template   |-> loaded.written,
                    members_classified |-> None]
        /\ self_customers = loaded.customers
        /\ self_support_staff = loaded.support_staff
    /\ first_run = None
    /\ run = 1
    /\ \E transcript \in RawTranscripts : raw_messages = RawOf(transcript)
    /\ pc = "parsed"
    /\ matches = <<>>
    /\ messages = <<>>
    /\ issues = <<>>
    /\ current_issue = 0
    /\ issue_counter = 1
    /\ kpis = None
    /\ Idle

\* The roster the first run saved is installed as members.json and a new
\* analyzer is constructed on it and parses the same transcript: its member
\* sets are loaded from the file, its messages are empty, and
\* parse_whatsapp_file gives it the raw_messages of the first run.
SecondRun ==
    /\ pc = "classified"
    /\ run = 1
    /\ run' = 2
    /\ first_run' = Some([messages      |-> messages,
                          customers     |-> self_customers,
                          support_staff |-> self_support_staff])
    /\ LET loaded == load_members_config(files.members_classified) IN
        /\ files' = [files EXCEPT !.members = files.members_classified]
        /\ self_customers' = loaded.customers
        /\ self_support_staff' = loaded.support_staff
    /\ messages' = <<>>
    /\ pc' = "parsed"
    /\ UNCHANGED <<matches, raw_messages, issues, current_issue, issue_counter, kpis, apart>>

NextMembers ==
    \/ ClassifyMembers
    \/ ClassifyMessages
    \/ SecondRun

SpecMembers == InitMembers /\ [][NextMembers]_vars

\* ------------------------------------- _classify_message_type on its own
\* The roles and bodies one call is made with: the three roles
\* classify_messages knows and one it does not; the bodies of the transcript
\* model and four more, two that hold keywords of two support intents and two
\* in upper case.
sender_types == {"customer", "support", "unknown", "admin"}

ClassifyBodies ==
    Contents \cup {"got it, please wait", "done, please recheck", "OK", "CHECKING"}

InitClassify ==
    /\ classified \in [sender_type : sender_types, content : ClassifyBodies,
                       has_ticket : BOOLEAN, returned : {None}]
    /\ pc = "call"
    /\ messages = <<>>
    /\ issues = <<>>
    /\ current_issue = 0
    /\ issue_counter = 1
    /\ kpis = None
    /\ matches = <<>>
    /\ raw_messages = <<>>
    /\ Configured
    /\ threads = <<>>
    /\ current_thread = None

\* Lines 420-458: the call returns.
ClassifyMessageType ==
    /\ pc = "call"
    /\ pc' = "returned"
    /\ classified' =
           [classified EXCEPT !.returned =
               Some(_classify_message_type(classified.sender_type,
                                           CodePoints(classified.content),
                                           classified.has_ticket))]
    /\ UNCHANGED <<messages, issues, current_issue, issue_counter, kpis, matches,
                   raw_messages, roster, threads, current_thread>>

NextClassify == ClassifyMessageType

SpecClassify == InitClassify /\ [][NextClassify]_vars

\* ------------------ detect_conversation_threads (responder_analysis.py)
\* Here messages is the prefix of ResponderAnalysisParser.messages the loop has
\* consumed.  A message is its timestamp in minutes, its sender and its
\* is_conversation_starter flag; the fields a thread only copies from its
\* first message (starter_message, message_type) are left out.
\* parse_chat_file does not sort, so a message may be earlier than the one
\* before it.
ThreadGaps == {0 - 60, 0, 2 * 60, 2 * 60 + 1, 4 * 60, 4 * 60 + 1, 12 * 60, 12 * 60 + 1}

\* self.min_gap_hours and self.day_break_hours (lines 50 and 52).
min_gap_hours == 4

day_break_hours == 12

\* The messages the list can continue with.
NextThreadMessages ==
    LET stamps == IF messages = <<>> THEN {0}
                  ELSE {messages[Len(messages)].timestamp + g : g \in ThreadGaps}
    IN  [timestamp : stamps, sender : {"c1", "s1"}, is_conversation_starter : BOOLEAN]

\* Lines 177-197: is_new_thread for a message while a thread is current; the
\* gap is compared in minutes (gap_hours > h is gap > h * 60).
is_new_thread(thread, message) ==
    LET time_gap == message.timestamp - thread.last_message_time IN
    IF time_gap > min_gap_hours * 60 THEN TRUE
    ELSE IF time_gap > day_break_hours * 60 THEN message.is_conversation_starter
    ELSE time_gap > 2 * 60 /\ message.is_conversation_starter

\* Lines 204-215: the thread message number idx starts; threads holds
\* references to messages, modelled as indices.
NewThread(message, idx, thread_id) ==
    [thread_id         |-> thread_id,
     start_time        |-> message.timestamp,
     starter           |-> message.sender,
     messages          |-> <<idx>>,
     last_message_time |-> message.timestamp,
     last_sender       |-> message.sender,
     participants      |-> {message.sender},
     total_gap         |-> 0]

\* Lines 217-227: message number idx continues the thread; total_gap is
\* total_gap_hours in minutes.
Continued(thread, message, idx, msgs) ==
    [thread EXCEPT !.messages = Append(@, idx),
                   !.last_message_time = message.timestamp,
                   !.last_sender = message.sender,
                   !.participants = @ \cup {message.sender},
                   !.total_gap = @ + (message.timestamp
                                        - msgs[thread.messages[Len(thread.messages)]].timestamp)]

InitThreads ==
    /\ messages = <<>>
    /\ threads = <<>>
    /\ current_thread = None
    /\ classified = None
    /\ pc = "threading"
    /\ issues = <<>>
    /\ current_issue = 0
    /\ issue_counter = 1
    /\ kpis = None
    /\ matches = <<>>
    /\ raw_messages = <<>>
    /\ Configured

InThreadLoop == pc = "threading" /\ Len(messages) < MaxMsgs

\* The rest of the state, which detect_conversation_threads leaves alone.
outside_threads ==
    <<issues, current_issue, issue_counter, kpis, matches, raw_messages, roster, classified>>

\* Lines 174-215: the message starts a new thread; the current one, if any, is
\* appended to threads.
StartThread ==
    /\ InThreadLoop
    /\ \E message \in NextThreadMessages :
        /\ IF current_thread = None THEN TRUE
           ELSE is_new_thread(current_thread[1], message)
        /\ messages' = Append(messages, message)
        /\ threads' = IF current_thread # None THEN Append(threads, current_thread[1])
                      ELSE threads
        /\ current_thread' = Some(NewThread(message, Len(messages) + 1, Len(threads') + 1))
    /\ UNCHANGED <<pc, outside_threads>>

\* Lines 216-227: the message continues the current thread.
ContinueThread ==
    /\ InThreadLoop
    /\ \E message \in NextThreadMessages :
        /\ current_thread # None
        /\ ~is_new_thread(current_thread[1], message)
        /\ messages' = Append(messages, message)
        /\ current_thread' =
               Some(Continued(current_thread[1], message, Len(messages) + 1, messages))
    /\ UNCHANGED <<pc, threads, outside_threads>>

\* Lines 229-234: the list is exhausted; the last thread is appended.
FinishThreads ==
    /\ pc = "threading"
    /\ pc' = "threads_done"
    /\ threads' = IF current_thread # None THEN Append(threads, current_thread[1])
                  ELSE threads
    /\ UNCHANGED <<messages, current_thread, outside_threads>>

NextThreads ==
    \/ StartThread
    \/ ContinueThread
    \/ FinishThreads

SpecThreads == InitThreads /\ [][NextThreads]_vars

\* ------------------------------------------------------------------ claims
\* Shorthands used by the claims below.

\* The message the step just taken has consumed, and its index.
Taken == Len(messages') = Len(messages) + 1

TakenIdx == Len(messages')

TakenMsg == messages'[Len(messages')]

\* "1234567" as code points.
Ticket1234567 == <<49, 50, 51, 52, 53, 54, 55>>

\* The three messages of the port-down scenario have been processed and the
\* closing pass has run.
C1_Scenario ==
    /\ pc = "done"
    /\ Len(messages) = 3
    /\ messages[1].sender_type = "customer"
    /\ messages[1].content = "port down, ticket 1234567"
    /\ messages[2].sender_type = "support"
    /\ messages[2].content = "ok checking"
    /\ messages[2].timestamp = messages[1].timestamp + 3
    /\ messages[3].sender_type = "support"
    /\ messages[3].content = "done, fixed"
    /\ messages[3].timestamp = messages[1].timestamp + 40

\* C1: the scenario (customer "port down, ticket 1234567" at t0, support
\* "ok checking" at t0+3min, support "done, fixed" at t0+40min) yields exactly
\* one Issue: resolved, first response after 3 minutes, resolution after 40
\* minutes, ticket_ids = ["1234567"], category port_down.
C1_ScenarioResult ==
    C1_Scenario =>
        /\ Len(issues) = 1
        /\ issues[1].status = "resolved"
        /\ issues[1].first_response_time = Some(3)
        /\ issues[1].resolution_time = Some(40)
        /\ issues[1].ticket_ids = <<Ticket1234567>>
        /\ issues[1].category = "port_down"

\* C2: status terminality.  An Issue whose status is resolved, pending or
\* no_response keeps that status in every later step, the closing pass
\* included; an Issue is never removed, and a status is always one of the four.
C2_StatusTerminal ==
    [][\A k \in 1..Len(issues) :
          /\ k <= Len(issues')
          /\ issues'[k].status \in {"open", "pending", "resolved", "no_response"}
          /\ (issues[k].status # "open" => issues'[k].status = issues[k].status)]_vars

\* C2 witness: a resolved Issue was followed by a new report, which opened the
\* next Issue, and the closing pass has run.
C2_Witness ==
    /\ pc = "done"
    /\ \E k \in 1..Len(issues) : k < Len(issues) /\ issues[k].status = "resolved"

\* C3: resolution_latency is set at most once.  Once an Issue's
\* resolution_time is set, no later step changes its resolution_time or its
\* end_time.
C3_ResolutionSetOnce ==
    [][\A k \in 1..Len(issues) :
          issues[k].resolution_time # None =>
              /\ issues'[k].resolution_time = issues[k].resolution_time
              /\ issues'[k].end_time = issues[k].end_time]_vars

\* A support message that counts as a response.
IsResponse(m) ==
    m.sender_type = "support"
    /\ m.message_type \in {"acknowledgment", "response", "request_info"}

\* Timestamp of the i-th message of an Issue.
StampOf(issue, i) == messages[issue.messages[i]].timestamp

\* first_response_time of every Issue is unset while the Issue holds no
\* response, and otherwise is the first response's timestamp minus start_time.
C4_Value ==
    \A k \in 1..Len(issues) :
        LET issue == issues[k]
            resp  == {i \in 1..Len(issue.messages) : IsResponse(messages[issue.messages[i]])}
        IN  IF resp = {} THEN issue.first_response_time = None
            ELSE LET first == CHOOSE i \in resp : \A j \in resp : i <= j
                 IN  issue.first_response_time = Some(StampOf(issue, first) - issue.start_time)

\* Once set (a zero duration included), first_response_time is left unchanged.
C4_Step ==
    \A k \in 1..Len(issues) :
        issues[k].first_response_time # None =>
            issues'[k].first_response_time = issues[k].first_response_time

\* C4: first_response_latency is set exactly once, by the first support
\* message appended to the Issue with intent acknowledgment, response or
\* request_info, to that message's timestamp minus start_time; every later
\* step leaves it unchanged, also when the value set is a zero duration.
C4_FirstResponseOnce == []C4_Value /\ [][C4_Step]_vars

\* C4 witness: an Issue whose first response came in the opening minute (zero
\* duration) holds a later response with a later timestamp.
C4_Witness ==
    \E k \in 1..Len(issues) :
        /\ issues[k].first_response_time = Some(0)
        /\ \E i \in 1..Len(issues[k].messages) :
               /\ IsResponse(messages[issues[k].messages[i]])
               /\ StampOf(issues[k], i) > issues[k].start_time

\* C5: closed Issues are immutable.  Once an Issue has left status open, no
\* later step changes any of its fields.
C5_ClosedImmutable ==
    [][\A k \in 1..Len(issues) :
          issues[k].status # "open" => issues'[k] = issues[k]]_vars

\* C6: when no Issue is open (none exists, or every one is closed) and the
\* next message is from a customer, a new Issue is opened whose messages list
\* is exactly that message, whatever its intent.
C6_CustomerOpensIssue ==
    [][(/\ Taken
        /\ \A k \in 1..Len(issues) : issues[k].status # "open"
        /\ TakenMsg.sender_type = "customer")
       => (/\ Len(issues') = Len(issues) + 1
           /\ issues'[Len(issues')].messages = <<TakenIdx>>)]_vars

\* The continuation rule as the specification words it: at most 2 hours since
\* the Issue's last message, or a shared ticket reference, or a customer
\* follow_up/general message.
Continuation(issue, m) ==
    \/ m.timestamp - StampOf(issue, Len(issue.messages)) <= 2 * 60
    \/ \E t \in {issue.ticket_ids[i] : i \in 1..Len(issue.ticket_ids)} :
           \E j \in 1..Len(m.ticket_ids) : m.ticket_ids[j] = t
    \/ (m.sender_type = "customer" /\ m.message_type \in {"follow_up", "general"})

IsCustomerReport(m) == m.sender_type = "customer" /\ m.message_type = "issue_report"

\* The message taken is appended to Issue k and no Issue is created.
AppendedTo(k) ==
    /\ Len(issues') = Len(issues)
    /\ issues'[k].messages = Append(issues[k].messages, TakenIdx)

\* C7 as claimed: while an Issue is open, every message for which continuation
\* holds is appended to it and no new Issue is created, customer issue_report
\* messages included.
C7_ContinuationAppends ==
    [][\A k \in 1..Len(issues) :
          (Taken /\ issues[k].status = "open" /\ Continuation(issues[k], TakenMsg))
          => AppendedTo(k)]_vars

\* C7 amended: while an Issue is open, every message for which continuation
\* holds and which is not a customer issue_report is appended to it and no new
\* Issue is created; a customer issue_report is never appended, it closes the
\* open Issue as pending and opens a new Issue.
C7_ContinuationAppendsUnlessReport ==
    [][\A k \in 1..Len(issues) :
          (Taken /\ issues[k].status = "open") =>
              /\ (Continuation(issues[k], TakenMsg) /\ ~IsCustomerReport(TakenMsg))
                     => AppendedTo(k)
              /\ IsCustomerReport(TakenMsg) =>
                     /\ Len(issues') = Len(issues) + 1
                     /\ issues'[k].messages = issues[k].messages
                     /\ issues'[k].status = "pending"
                     /\ issues'[Len(issues')].messages = <<TakenIdx>>]_vars

\* C7 witness: a report within 2 hours of an open Issue has closed it and
\* opened a second one, and the second Issue, still open, has taken a support
\* message more than 2 hours after its last message (by the shared ticket).
C7_Witness ==
    /\ Len(issues) = 2
    /\ issues[1].status = "pending"
    /\ issues[2].start_time - StampOf(issues[1], Len(issues[1].messages)) <= 2 * 60
    /\ issues[2].status = "open"
    /\ Len(issues[2].messages) = 2
    /\ messages[issues[2].messages[2]].sender_type = "support"
    /\ StampOf(issues[2], 2) - StampOf(issues[2], 1) > 2 * 60

\* C8: no message appears in the messages list of two Issues, nor twice in
\* one Issue.
C8_Disjoint ==
    \A k1, k2 \in 1..Len(issues) :
        \A i1 \in 1..Len(issues[k1].messages), i2 \in 1..Len(issues[k2].messages) :
            issues[k1].messages[i1] = issues[k2].messages[i2] => (k1 = k2 /\ i1 = i2)

\* C8 witness: after the closing pass, two Issues that together hold every
\* one of three messages.
C8_Witness ==
    /\ pc = "done"
    /\ Len(messages) = 3
    /\ Len(issues) = 2
    /\ Len(issues[1].messages) + Len(issues[2].messages) = 3

\* The message taken belongs to some Issue after the step.
TakenInIssue ==
    \E k \in 1..Len(issues') :
        \E i \in 1..Len(issues'[k].messages) : issues'[k].messages[i] = TakenIdx

\* C9: the only messages that end in no Issue are those processed while an
\* Issue was open, that failed the continuation rule and were not customer
\* messages with intent issue_report or general.
C9_Coverage ==
    [][Taken =>
          \/ TakenInIssue
          \/ \E k \in 1..Len(issues) :
                 /\ issues[k].status = "open"
                 /\ ~Continuation(issues[k], TakenMsg)
                 /\ ~(TakenMsg.sender_type = "customer"
                      /\ TakenMsg.message_type \in {"issue_report", "general"})]_vars

\* C10: thread break.  An open Issue whose last message is a customer message
\* at time t, followed by a customer issue_report at t + 3h that shares no
\* ticket with it, is closed as pending with end_time = t, and a second Issue
\* with a different id is opened whose only message is the new one.
C10_ThreadBreak ==
    [][\A k \in 1..Len(issues) :
          LET last == messages[issues[k].messages[Len(issues[k].messages)]] IN
          (/\ Taken
           /\ issues[k].status = "open"
           /\ last.sender_type = "customer"
           /\ IsCustomerReport(TakenMsg)
           /\ TakenMsg.timestamp = last.timestamp + 3 * 60
           /\ \A i \in 1..Len(issues[k].ticket_ids), j \in 1..Len(TakenMsg.ticket_ids) :
                  issues[k].ticket_ids[i] # TakenMsg.ticket_ids[j])
          => (/\ issues'[k].status = "pending"
              /\ issues'[k].end_time = Some(last.timestamp)
              /\ Len(issues') = Len(issues) + 1
              /\ issues'[Len(issues')].messages = <<TakenIdx>>
              /\ \A j \in 1..Len(issues) :
                     issues'[j].issue_id # issues'[Len(issues')].issue_id)]_vars

\* C10 witness: an Issue closed as pending at its last customer message's
\* time t, later than its start, and the next Issue opened at t + 3h.
C10_Witness ==
    \E k \in 1..Len(issues) :
        /\ k < Len(issues)
        /\ issues[k].status = "pending"
        /\ messages[issues[k].messages[Len(issues[k].messages)]].sender_type = "customer"
        /\ StampOf(issues[k], Len(issues[k].messages)) > issues[k].start_time
        /\ issues[k].end_time = Some(StampOf(issues[k], Len(issues[k].messages)))
        /\ issues[k + 1].start_time = StampOf(issues[k], Len(issues[k].messages)) + 3 * 60
        /\ issues[k + 1].messages = <<issues[k].messages[Len(issues[k].messages)] + 1>>

\* The Issue holds no message from support.
NoSupportMessage(issue) ==
    \A i \in 1..Len(issue.messages) : messages[issue.messages[i]].sender_type # "support"

\* C11 as claimed: every Issue without a support message ends with status
\* no_response and both latencies unset, whether it was still open at the end
\* of the stream or was followed by later Issues.
C11_NoSupportNoResponse ==
    pc = "done" =>
        \A k \in 1..Len(issues) :
            NoSupportMessage(issues[k]) =>
                /\ issues[k].status = "no_response"
                /\ issues[k].first_response_time = None
                /\ issues[k].resolution_time = None

\* C11 amended: every Issue without a support message ends with both
\* latencies unset; its final status is no_response when it was still open at
\* the end of the stream (it is the last Issue), and pending when a later
\* customer issue_report closed it.
C11_NoSupportFinalStatus ==
    pc = "done" =>
        \A k \in 1..Len(issues) :
            NoSupportMessage(issues[k]) =>
                /\ issues[k].first_response_time = None
                /\ issues[k].resolution_time = None
                /\ issues[k].status = IF k = Len(issues) THEN "no_response" ELSE "pending"

\* C11 witness: after the closing pass, two Issues without any support
\* message, the first closed by the report that opened the second.
C11_Witness ==
    /\ pc = "done"
    /\ Len(issues) = 2
    /\ NoSupportMessage(issues[1]) /\ issues[1].status = "pending"
    /\ NoSupportMessage(issues[2]) /\ issues[2].status = "no_response"

\* C12: end-of-stream finalization.  Every Issue still open when the stream
\* is exhausted gets end_time = its last message's timestamp, and status
\* pending if its first_response_time is set (a zero duration included), else
\* no_response.
C12_Finalization ==
    [][(pc = "loop" /\ pc' = "done") =>
          \A k \in 1..Len(issues) :
              issues[k].status = "open" =>
                  /\ issues'[k].end_time = Some(StampOf(issues[k], Len(issues[k].messages)))
                  /\ issues'[k].status = IF issues[k].first_response_time # None
                                         THEN "pending" ELSE "no_response"]_vars

\* C13: a support resolution message appended to an open Issue sets status
\* resolved, end_time = the message's timestamp and resolution_time =
\* end_time - start_time, and leaves first_response_time and total_responses
\* unchanged.
C13_ResolutionStep ==
    [][\A k \in 1..Len(issues) :
          (/\ Taken
           /\ issues[k].status = "open"
           /\ TakenMsg.sender_type = "support" /\ TakenMsg.message_type = "resolution"
           /\ issues'[k].messages = Append(issues[k].messages, TakenIdx))
          => (/\ issues'[k].status = "resolved"
              /\ issues'[k].end_time = Some(TakenMsg.timestamp)
              /\ issues'[k].resolution_time = Some(TakenMsg.timestamp - issues[k].start_time)
              /\ issues'[k].first_response_time = issues[k].first_response_time
              /\ issues'[k].total_responses = issues[k].total_responses)]_vars

\* C13 witness: an Issue that had a response before it was resolved, resolved
\* later than it started by its last message.
C13_Witness ==
    \E k \in 1..Len(issues) :
        /\ issues[k].status = "resolved"
        /\ issues[k].total_responses = 1
        /\ issues[k].first_response_time # None
        /\ Len(issues[k].messages) = 3
        /\ messages[issues[k].messages[3]].message_type = "resolution"
        /\ issues[k].resolution_time = Some(StampOf(issues[k], 3) - issues[k].start_time)
        /\ StampOf(issues[k], 3) > issues[k].start_time

\* The set of elements of a sequence.
Range(seq) == {seq[i] : i \in 1..Len(seq)}

\* C14: ticket_ids of every Issue is the union of the ticket references of
\* its messages and holds no entry twice, also when the opening message
\* mentions the same ticket more than once.
C14_TicketUnion ==
    \A k \in 1..Len(issues) :
        /\ Range(issues[k].ticket_ids)
               = UNION {Range(messages[issues[k].messages[i]].ticket_ids) :
                            i \in 1..Len(issues[k].messages)}
        /\ \A i, j \in 1..Len(issues[k].ticket_ids) :
               issues[k].ticket_ids[i] = issues[k].ticket_ids[j] => i = j

\* C15: Issue ids are sequential, stable and never reused.  The k-th Issue of
\* the collection has id ISSUE_000k (k below 10 here), in every state, so an
\* id never changes and no two Issues share one.
C15_SequentialIds ==
    /\ Len(issues) < 10
    /\ \A k \in 1..Len(issues) : issues[k].issue_id = "ISSUE_000" \o ToString(k)
    /\ \A j, k \in 1..Len(issues) : issues[j].issue_id = issues[k].issue_id => j = k

\* C15 witness: three Issues have been created.
C15_Witness == Len(issues) = 3 /\ issues[3].issue_id = "ISSUE_0003"

\* ---- C16: for every non-empty finished Issue set, the resolution_rate and
\* the response_rate calculate_kpis returns are both within [0, 100]: the
\* resolved count and the number of Issues with a first response never exceed
\* total_issues.
InPercentRange(rate) == rate.den > 0 /\ 0 <= rate.num /\ rate.num <= 100 * rate.den

C16_RateBounds ==
    (kpis # None /\ issues # <<>>) =>
        LET k == kpis[1] IN
        /\ InPercentRange(k.resolution_rate)
        /\ InPercentRange(k.response_rate)
        /\ k.resolved_issues <= k.total_issues
        /\ k.response_rate.num <= 100 * k.total_issues

\* Both rates at their upper bound: a single Issue, answered and resolved.
C16_Witness ==
    /\ kpis # None /\ Len(issues) = 1
    /\ kpis[1].resolution_rate = Ratio(100, 1)
    /\ kpis[1].response_rate = Ratio(100, 1)

\* ---- C17: on an empty Issue set calculate_kpis returns a result in which the
\* resolution rate and the response rate are both 0.
C17_EmptyRatesZero ==
    (kpis # None /\ issues = <<>>) =>
        /\ {"resolution_rate", "response_rate"} \subseteq DOMAIN kpis[1]
        /\ kpis[1].resolution_rate.num = 0
        /\ kpis[1].response_rate.num = 0

\* ---- C18: the response-rate numerator and the population of the response
\* statistics are exactly the Issues whose first_response_time is set, the
\* population of the resolution statistics exactly those whose resolution_time
\* is set; a latency set to a zero duration is included, an unset one is not.
IsSet(opt) == opt # None

SetLatencies(latencies) ==
    LET kept == SelectSeq(latencies, IsSet)
    IN  [k \in 1..Len(kept) |-> kept[k][1]]

C18_Populations ==
    (kpis # None /\ issues # <<>>) =>
        LET k         == kpis[1]
            responded == SetLatencies([n \in 1..Len(issues) |-> issues[n].first_response_time])
            resolved  == SetLatencies([n \in 1..Len(issues) |-> issues[n].resolution_time])
        IN  /\ k.response_rate.num = 100 * Len(responded)
            /\ k.avg_response_time_minutes = Average(responded)
            /\ k.min_response_time_minutes =
                   (IF responded = <<>> THEN None ELSE Some(Ratio(MinOf(responded), 1)))
            /\ k.max_response_time_minutes =
                   (IF responded = <<>> THEN None ELSE Some(Ratio(MaxOf(responded), 1)))
            /\ k.avg_resolution_time_hours =
                   Ratio(Average(resolved).num, Average(resolved).den * 60)
            /\ k.min_resolution_time_hours =
                   (IF resolved = <<>> THEN None ELSE Some(Ratio(MinOf(resolved), 60)))
            /\ k.max_resolution_time_hours =
                   (IF resolved = <<>> THEN None ELSE Some(Ratio(MaxOf(resolved), 60)))

\* ---- C19: every Issue with first_response_time set is counted in exactly one
\* of the five buckets, the one whose half-open range of minutes [lower, upper)
\* holds its latency, so the five counts sum to the number of such Issues.
Responded == {n \in 1..Len(issues) : issues[n].first_response_time # None}

InMinutes(lower, upper) ==
    Cardinality({n \in Responded : /\ lower <= issues[n].first_response_time[1]
                                   /\ issues[n].first_response_time[1] < upper})

C19_Histogram ==
    (kpis # None /\ issues # <<>>) =>
        LET ranges == kpis[1].timing_analysis.response_time_ranges IN
        /\ ranges["under_5_min"] = InMinutes(0, 5)
        /\ ranges["5_to_15_min"] = InMinutes(5, 15)
        /\ ranges["15_to_30_min"] = InMinutes(15, 30)
        /\ ranges["30_to_60_min"] = InMinutes(30, 60)
        /\ ranges["over_1_hour"] =
               Cardinality({n \in Responded : issues[n].first_response_time[1] >= 60})
        /\ ranges["under_5_min"] + ranges["5_to_15_min"] + ranges["15_to_30_min"]
             + ranges["30_to_60_min"] + ranges["over_1_hour"] = Cardinality(Responded)

\* ---- C20: the message list parse_whatsapp_file produces is non-decreasing in
\* timestamp and keeps messages of one timestamp in transcript order (a stable
\* sort), and classify_messages keeps that order, so the list the segmentation
\* loop reads is non-decreasing in timestamp.
NonDecreasing(msgs) ==
    \A i, j \in 1..Len(msgs) : i < j => msgs[i].timestamp <= msgs[j].timestamp

\* The accepted messages in the order of the transcript.
TranscriptOrder ==
    LET accepted == SelectSeq(matches, Accepted)
    IN  [k \in 1..Len(accepted) |-> RawMessage(accepted[k])]

C20_Ordering ==
    /\ pc \in {"parsed", "raised", "members", "classified"} =>
        /\ NonDecreasing(raw_messages)
        /\ Len(raw_messages) = Len(TranscriptOrder)
        /\ \A n \in 1..Len(raw_messages) :
               LET At(msg) == msg.timestamp = raw_messages[n].timestamp
               IN  SelectSeq(raw_messages, At) = SelectSeq(TranscriptOrder, At)
    /\ pc = "classified" =>
        /\ Len(messages) = Len(raw_messages)
        /\ \A n \in 1..Len(messages) :
               /\ messages[n].timestamp = raw_messages[n].timestamp
               /\ messages[n].sender = raw_messages[n].sender
               /\ messages[n].content = raw_messages[n].content
        /\ NonDecreasing(messages)

\* A transcript whose order is not the order of time, with two different
\* messages of one timestamp, has been parsed and classified.
C20_Witness ==
    /\ pc = "classified"
    /\ ~NonDecreasing(TranscriptOrder)
    /\ \E i, j \in 1..Len(TranscriptOrder) :
           /\ i < j
           /\ TranscriptOrder[i].timestamp = TranscriptOrder[j].timestamp
           /\ TranscriptOrder[i] # TranscriptOrder[j]

\* ---- C26: when an Issue exists, continuation fails for the next message and
\* the message is not a customer issue_report or general message, processing
\* it changes nothing: no Issue is created, no field of any Issue changes and
\* the current-Issue pointer refers to the same Issue.
C26_DroppedFrame ==
    [][(/\ Taken
        /\ current_issue # 0
        /\ ~Continuation(issues[current_issue], TakenMsg)
        /\ ~(/\ TakenMsg.sender_type = "customer"
             /\ TakenMsg.message_type \in {"issue_report", "general"}))
       => (/\ issues' = issues
           /\ current_issue' = current_issue
           /\ issue_counter' = issue_counter)]_vars

\* The messages of the stream that are in some Issue.
InSomeIssue(n) == \E k \in 1..Len(issues) : n \in Range(issues[k].messages)

\* A support message taken while an Issue existed is in no Issue.
C26_Witness ==
    /\ Len(issues) >= 1
    /\ \E n \in 1..Len(messages) :
           /\ n > issues[1].messages[1]
           /\ messages[n].sender_type = "support"
           /\ ~InSomeIssue(n)

\* ---- C27: every Issue, at every step, has a non-empty messages list whose
\* first element is the opening message, with timestamp start_time, and whose
\* timestamps never decrease; after finalization start_time <= end_time, no
\* Issue is open and every Issue has end_time set.
C27_IssueShape ==
    \A k \in 1..Len(issues) :
        /\ issues[k].messages # <<>>
        /\ messages[issues[k].messages[1]].content = issues[k].initial_message
        /\ messages[issues[k].messages[1]].sender = issues[k].reporter
        /\ StampOf(issues[k], 1) = issues[k].start_time
        /\ \A i, j \in 1..Len(issues[k].messages) :
               i < j => StampOf(issues[k], i) <= StampOf(issues[k], j)
        /\ pc \in {"done", "reported"} =>
               /\ issues[k].status # "open"
               /\ issues[k].end_time # None
               /\ issues[k].start_time <= issues[k].end_time[1]

\* A finished Issue of three messages that ended later than it started.
C27_Witness ==
    /\ pc = "done"
    /\ \E k \in 1..Len(issues) :
           /\ Len(issues[k].messages) = 3
           /\ StampOf(issues[k], 1) < StampOf(issues[k], 2)
           /\ StampOf(issues[k], 2) < StampOf(issues[k], 3)
           /\ issues[k].end_time = Some(StampOf(issues[k], 3))

\* ---- C29: every Issue is opened by a customer issue_report.  A customer
\* general or follow_up message never opens one: taken while an Issue exists
\* it is appended to the current Issue whatever the time gap, taken before any
\* Issue exists it is in no Issue.
\* The Issue that was current when message n was taken: the last one opened
\* before n (0 when there was none).
CurrentAt(n) ==
    LET opened == {k \in 1..Len(issues) : issues[k].messages[1] < n}
    IN  IF opened = {} THEN 0 ELSE CHOOSE k \in opened : \A o \in opened : o <= k

C29_OpenedByReport ==
    /\ \A k \in 1..Len(issues) : IsCustomerReport(messages[issues[k].messages[1]])
    /\ \A n \in 1..Len(messages) :
           (/\ messages[n].sender_type = "customer"
            /\ messages[n].message_type \in {"general", "follow_up"})
           => IF CurrentAt(n) = 0 THEN ~InSomeIssue(n)
              ELSE n \in Range(Tail(issues[CurrentAt(n)].messages))

\* A customer general or follow_up message was appended more than two hours
\* after the Issue's last message.
C29_Witness ==
    \E k \in 1..Len(issues) : \E i \in 2..Len(issues[k].messages) :
        /\ messages[issues[k].messages[i]].sender_type = "customer"
        /\ messages[issues[k].messages[i]].message_type \in {"general", "follow_up"}
        /\ StampOf(issues[k], i) - StampOf(issues[k], i - 1) > 2 * 60

\* ---- C30: in every state, for every Issue: status is resolved exactly when
\* resolution_time is set; first_response_time is set exactly when
\* total_responses >= 1; total_responses is the number of the Issue's support
\* messages with intent response, acknowledgment or request_info; and
\* support_participants is the set of senders of its support messages.
C30_Bookkeeping ==
    \A k \in 1..Len(issues) :
        LET of_support == {i \in 1..Len(issues[k].messages) :
                              messages[issues[k].messages[i]].sender_type = "support"}
        IN  /\ (issues[k].status = "resolved") <=> (issues[k].resolution_time # None)
            /\ (issues[k].first_response_time # None) <=> (issues[k].total_responses >= 1)
            /\ issues[k].total_responses =
                   Cardinality({i \in of_support :
                       messages[issues[k].messages[i]].message_type
                           \in {"response", "acknowledgment", "request_info"}})
            /\ issues[k].support_participants =
                   {messages[issues[k].messages[i]].sender : i \in of_support}

\* An Issue answered by one engineer and resolved by another.
C30_Witness ==
    \E k \in 1..Len(issues) :
        /\ issues[k].status = "resolved"
        /\ issues[k].resolution_time # None
        /\ issues[k].total_responses = 1
        /\ issues[k].support_participants = {"s1", "s2"}

\* ---- C21: when the transcript yields no message, parse_whatsapp_file
\* returns the count 0 without raising.
C21_EmptyReturnsZero ==
    (pc # "start" /\ TranscriptOrder = <<>>) => (pc = "parsed" /\ Len(raw_messages) = 0)

\* ---- C25: _classify_message_type is total and role-gated: a customer
\* message gets issue_report, follow_up or general; a support message gets
\* resolution, acknowledgment, request_info or response, resolution keywords
\* outranking acknowledgment, which outranks request_info, with response as
\* the fallback; any other role gets other.
C25_RoleGated ==
    pc = "returned" =>
        LET intent == classified.returned[1]
            body   == CodePoints(classified.content)
            resolution     == AnyIn(resolution_indicators, Lower(body))
            acknowledgment == AnyIn(patterns_acknowledgment, body)
            request_action == AnyIn(patterns_request_action, body)
        IN  /\ classified.returned # None
            /\ classified.sender_type = "customer" =>
                   intent \in {"issue_report", "follow_up", "general"}
            /\ classified.sender_type = "support" =>
                   /\ intent \in {"resolution", "acknowledgment", "request_info", "response"}
                   /\ resolution => intent = "resolution"
                   /\ (~resolution /\ acknowledgment) => intent = "acknowledgment"
                   /\ (~resolution /\ ~acknowledgment /\ request_action) =>
                          intent = "request_info"
                   /\ (~resolution /\ ~acknowledgment /\ ~request_action) =>
                          intent = "response"
            /\ classified.sender_type \notin {"customer", "support"} => intent = "other"

\* A support body with a resolution indicator and an acknowledgment keyword
\* was classified.
C25_Witness ==
    /\ pc = "returned"
    /\ classified.sender_type = "support"
    /\ AnyIn(resolution_indicators, Lower(CodePoints(classified.content)))
    /\ AnyIn(patterns_acknowledgment, CodePoints(classified.content))
    /\ classified.returned = Some("resolution")

\* ---- C28: in detect_conversation_threads a message more than 12 hours
\* after the thread's last message continues the thread unless it is a
\* conversation starter, starts a new thread when it is one, and a message at
\* most 2 hours after it always continues the thread.
\* Every message is put in a thread, so the last message of the current
\* thread is the message before.
AllThreads ==
    IF pc = "threading" /\ current_thread # None
    THEN Append(threads, current_thread[1]) ELSE threads

SameThread(n, m) ==
    \E t \in 1..Len(AllThreads) : {n, m} \subseteq Range(AllThreads[t].messages)

C28_OvernightContinuation ==
    \A n \in 2..Len(messages) :
        LET gap == messages[n].timestamp - messages[n - 1].timestamp IN
        /\ (gap > 12 * 60 /\ ~messages[n].is_conversation_starter) => SameThread(n - 1, n)
        /\ (gap > 12 * 60 /\ messages[n].is_conversation_starter) => ~SameThread(n - 1, n)
        /\ gap <= 2 * 60 => SameThread(n - 1, n)

\* ---- C22: after classify_members every sender of the parsed messages is in
\* the customer set or the support set; classify_messages then gives every
\* message one sender_type that is not unknown, and so no message_type other;
\* a sender in both roster lists has one role, customer, on all its messages.
C22_RoleCoverage ==
    /\ pc \in {"members", "classified"} =>
           all_senders(raw_messages) \subseteq self_customers \cup self_support_staff
    /\ pc = "classified" =>
        /\ Len(messages) = Len(raw_messages)
        /\ \A n \in 1..Len(messages) :
            /\ messages[n].sender = raw_messages[n].sender
            /\ messages[n].sender_type \in {"customer", "support"}
            /\ messages[n].message_type # "other"
            /\ messages[n].sender \in self_customers \cap self_support_staff
                   => messages[n].sender_type = "customer"
            /\ \A m \in 1..Len(messages) :
                   messages[m].sender = messages[n].sender
                       => messages[m].sender_type = messages[n].sender_type

\* The messages of a run are classified; one sender was in no list of the
\* loaded roster and another is in both sets.
C22_Witness ==
    /\ pc = "classified"
    /\ run = 1
    /\ \E n, m \in 1..Len(messages) :
        /\ messages[n].sender
               \notin load_members_config(files.members).customers
                      \cup load_members_config(files.members).support_staff
        /\ messages[m].sender \in self_customers \cap self_support_staff

\* ---- C23: a second run on the same transcript that loads the roster the
\* first run saved finds no unclassified sender, ends with the member sets
\* of the first run, gives every message the role the first run gave it and
\* saves a roster identical to the one it loaded.
C23_RoundTrip ==
    run = 2 =>
        /\ unclassified(self_customers, self_support_staff, raw_messages) = {}
        /\ self_customers = first_run[1].customers
        /\ self_support_staff = first_run[1].support_staff
        /\ pc \in {"members", "classified"} => files.members_classified = Some(
               _save_classification(first_run[1].customers, first_run[1].support_staff))
        /\ pc \in {"members", "classified"} => files.members_classified = files.members
        /\ pc = "classified" => messages = first_run[1].messages

\* The second run has classified its messages; the first run had started
\* without members.json and had inferred a customer and a support engineer.
C23_Witness ==
    /\ run = 2
    /\ pc = "classified"
    /\ files.members_template # None
    /\ \E n, m \in 1..Len(messages) :
        /\ messages[n].sender \notin SetOf(template.customers)
        /\ messages[n].sender_type = "customer"
        /\ messages[m].sender \notin SetOf(template.support_staff)
        /\ messages[m].sender_type = "support"

\* ---- C24: when members.json does not exist, load_members_config writes the
\* template and the run goes on with an empty customer set and an empty
\* support set, so that every sender gets the role the analysis of
\* classify_members infers from its messages.
C24_AbsentRosterInferred ==
    (run = 1 /\ files.members = None) =>
        /\ files.members_template = Some(template)
        /\ pc = "parsed" => (self_customers = {} /\ self_support_staff = {})
        /\ pc = "classified" =>
               \A n \in 1..Len(messages) :
                   messages[n].sender_type =
                       IF _analyze_sender_behavior(
                              MessagesOf(messages[n].sender, raw_messages)).likely_customer
                       THEN "customer" ELSE "support"

====
